---- MODULE Spec2Model ----
(***************************************************************************)
(* Model of the CloudFormation changeset reporter (src/index.js): the two  *)
(* report renderers generateActionReport (ANSI console form) and           *)
(* generatePRReport (Markdown form) applied to a described changeset.      *)
(*                                                                         *)
(* A report string is modelled by the sequence of parts the code appends   *)
(* to it, in the order it appends them: the four summary lines, the rows   *)
(* of the overview table, the per-category detail sections with one block  *)
(* per resource, and the "No changes detected." line.  Formatting tokens   *)
(* (escape sequences, Markdown emphasis) are left out; every value the     *)
(* code interpolates into a line is a field of the part.                   *)
(***************************************************************************)
EXTENDS Integers, Sequences, FiniteSets, TLC

\* ------------------------------------------------------------------------
\* Bounds of the explored inputs
\* ------------------------------------------------------------------------
MaxChanges == 2     \* resource changes in a changeset
MaxDetails == 2     \* property-level details of a resource change

\* ------------------------------------------------------------------------
\* Values of the changeset description (the DescribeChangeSet response)
\* ------------------------------------------------------------------------
\* A property that is absent from an object reads as undefined.
Undefined == "undefined"

\* ResourceChange.Action
Actions == {"Add", "Modify", "Remove", "Import", "Dynamic"}

\* ResourceChange.Replacement; absent for some changes
Replacements == {"True", "False", "Conditional", Undefined}

\* Detail.Evaluation
Evaluations == {"Static", "Dynamic"}

\* Detail.Target.RequiresRecreation
RequiresRecreations == {"Never", "Always", "Conditionally"}

\* Logical ids and property names: the k-th change of a changeset and the
\* k-th detail of a change carry the k-th name, so that every change and
\* every detail of an input can be told from the others.
LogicalResourceIds ==
    << "Bucket", "LaunchConstraint", "Db", "ProductAssociation", "Queue", "Fn",
       "Topic", "Role", "Policy", "Table", "Alarm", "Key" >>
PropertyNames == <<"PropA", "PropB", "PropC", "PropD", "PropE", "PropF">>

\* The k-th detail of a resource change.
Detail(k, evaluation, requiresRecreation) ==
    [ Evaluation   |-> evaluation,
      ChangeSource |-> "DirectModification",
      Target       |-> [ Name               |-> PropertyNames[k],
                         Attribute          |-> "Properties",
                         RequiresRecreation |-> requiresRecreation ] ]

\* All detail lists of length n.
DetailLists(n) ==
    { [k \in 1..n |-> Detail(k, f[k][1], f[k][2])] :
        f \in [1..n -> Evaluations \X RequiresRecreations] }

\* The Details property of a resource change: absent, or an array.
AbsentDetails == [kind |-> Undefined, items |-> <<>>]

ArrayDetails(items) == [kind |-> "array", items |-> items]

\* The k-th resource change of a changeset (the ResourceChange object).
\* color is the _color property generateActionReport attaches to it.
ResourceChange(k, action, replacement, details) ==
    [ LogicalResourceId |-> LogicalResourceIds[k],
      ResourceType      |-> "AWS::S3::Bucket",
      Action            |-> action,
      Replacement       |-> replacement,
      Details           |-> details,
      color             |-> Undefined ]

\* Changes lists of n resource changes without a Details property.
PlainChanges(n) ==
    { [k \in 1..n |-> ResourceChange(k, f[k][1], f[k][2], AbsentDetails)] :
        f \in [1..n -> Actions \X Replacements] }

\* Changes lists of one resource change that has a Details array.
DetailedChanges ==
    { <<ResourceChange(1, a, r, ArrayDetails(d))>> :
        a \in Actions, r \in Replacements,
        d \in UNION { DetailLists(n) : n \in 0..MaxDetails } }

\* The Changes property of the changeset: an array, null, or absent.
ChangesValues ==
    { [kind |-> "array", items |-> c] :
        c \in (UNION { PlainChanges(n) : n \in 0..MaxChanges }) \cup DetailedChanges }
    \cup { [kind |-> "null", items |-> <<>>], [kind |-> Undefined, items |-> <<>>] }

\* The described changeset.
Changesets ==
    [ StackName       : {"my-stack"},
      ChangeSetName   : {"my-changeset"},
      Status          : {"CREATE_COMPLETE"},
      ExecutionStatus : {"AVAILABLE"},
      Changes         : ChangesValues ]

VARIABLES
    changeset,      \* the changeset object handed to the renderers
    actionReport,   \* what the last generateActionReport call returned
    actionGroups,   \* replacementGroups of that call, at its return
    actionOutcome,  \* "none", or how the last call ended: "returned", "threw"
    prReport,       \* what the last generatePRReport call returned
    prGroups,       \* replacementGroups of that call, at its return
    prOutcome,      \* "none", or how the last call ended: "returned", "threw"
    inputs,         \* the action's inputs and the event, read with core.getInput
    pc,             \* the await run() is suspended at; "done" after it returned
    listResult,     \* what listChangeSets resolved to, Summaries sorted in place
    actualChangesetName,  \* let actualChangesetName
    noChangesetFound,     \* let noChangesetFound
    outputs,        \* the outputs set with core.setOutput, by name
    failed,         \* the messages passed to core.setFailed
    log,            \* the core.info and core.warning lines, in order
    calls,          \* the AWS and GitHub requests made, in order, with outcome
    comments,       \* the comments of the pull request, as GitHub holds them
    runs            \* the runs posting to one pull request: where each is, and with what

rendererVars == <<changeset, actionReport, actionGroups, actionOutcome,
                  prReport, prGroups, prOutcome>>

runVars == <<inputs, pc, listResult, actualChangesetName, noChangesetFound,
             outputs, failed, log, calls, comments, runs>>

vars == <<rendererVars, runVars>>

\* ------------------------------------------------------------------------
\* Helpers shared by the two renderers
\* ------------------------------------------------------------------------
\* Concatenation of a sequence of sequences: successive `report += ...`.
RECURSIVE Flatten(_)
Flatten(ss) == IF ss = <<>> THEN <<>> ELSE Head(ss) \o Flatten(Tail(ss))

\* value || 'N/A'
OrNA(value) == IF value = Undefined THEN "N/A" ELSE value

\* resource.Details && resource.Details.length > 0
HasDetails(resource) ==
    resource.Details.kind = "array" /\ Len(resource.Details.items) > 0

\* The four groups, empty.
EmptyGroups ==
    [ g \in {"Will be replaced", "Modified without replacement",
             "New resources", "Removed resources"} |-> <<>> ]

\* A report variable before the renderer has been called.
NotCalled == <<>>

\* The result of a call that ends by throwing: no report.
Threw(error) == [threw |-> TRUE, error |-> error]

\* ------------------------------------------------------------------------
\* generateActionReport: the ANSI console report
\* ------------------------------------------------------------------------
\* ActionReport_changes without the default: const changes = changeset.Changes;
ActionReport_changes_NoDefault(cs) == cs.Changes

\* const changes = changeset.Changes || [];
ActionReport_changes(cs) ==
    IF cs.Changes.kind = "array" THEN cs.Changes ELSE [kind |-> "array", items |-> <<>>]

\* ActionReport_branch with the replacement test put before the Remove test.
ActionReport_branch_ReplacementFirst(resource) ==
    LET needsReplacement == resource.Replacement = "True"
                            \/ resource.Replacement = "Conditional"
        isAdd == resource.Action = "Add"
        isRemove == resource.Action = "Remove"
    IN  IF needsReplacement THEN [color |-> "red", group |-> "Will be replaced"]
        ELSE IF isRemove THEN [color |-> "darkred", group |-> "Removed resources"]
        ELSE IF isAdd THEN [color |-> "green", group |-> "New resources"]
        ELSE [color |-> "yellow", group |-> "Modified without replacement"]

\* ActionReport_branch with Import taken for an addition.
ActionReport_branch_ImportIsNew(resource) ==
    LET needsReplacement == resource.Replacement = "True"
                            \/ resource.Replacement = "Conditional"
        isAdd == resource.Action = "Add" \/ resource.Action = "Import"
        isRemove == resource.Action = "Remove"
    IN  IF isRemove THEN [color |-> "darkred", group |-> "Removed resources"]
        ELSE IF needsReplacement THEN [color |-> "red", group |-> "Will be replaced"]
        ELSE IF isAdd THEN [color |-> "green", group |-> "New resources"]
        ELSE [color |-> "yellow", group |-> "Modified without replacement"]

\* The branch the classification loop takes for one resource: the colour it
\* attaches and the group it pushes to.
ActionReport_branch(resource) ==
    LET needsReplacement == resource.Replacement = "True"
                            \/ resource.Replacement = "Conditional"
        isAdd == resource.Action = "Add"
        isRemove == resource.Action = "Remove"
    IN  IF isRemove THEN [color |-> "darkred", group |-> "Removed resources"]
        ELSE IF needsReplacement THEN [color |-> "red", group |-> "Will be replaced"]
        ELSE IF isAdd THEN [color |-> "green", group |-> "New resources"]
        ELSE [color |-> "yellow", group |-> "Modified without replacement"]

\* ActionReport_push with the last branch taken for Modify only, so that no
\* branch pushes an Import or a Dynamic change.
ActionReport_push_ModifyOnly(groups, resource, i) ==
    LET group == ActionReport_branch(resource).group
    IN  IF group = "Modified without replacement" /\ resource.Action # "Modify"
        THEN groups
        ELSE [groups EXCEPT ![group] = Append(@, [index |-> i, resource |-> i])]

\* ActionReport_push that skips a resource that already carries a colour.
ActionReport_push_SkipColored(groups, resource, i) ==
    IF resource.color # Undefined THEN groups
    ELSE [groups EXCEPT ![ActionReport_branch(resource).group] =
            Append(@, [index |-> i, resource |-> i])]

\* replacementGroups[...].push({ index: i+1, resource, change }) for the
\* i-th change (i counted from 1); resource is a reference to the object,
\* modelled by its position in changes.
ActionReport_push(groups, resource, i) ==
    [groups EXCEPT ![ActionReport_branch(resource).group] =
        Append(@, [index |-> i, resource |-> i])]

\* changes.forEach(...) of the classification: the groups after the loop
\* has processed changes i..Len(changes).
RECURSIVE ActionReport_replacementGroups(_, _, _)
ActionReport_replacementGroups(changes, i, groups) ==
    IF i > Len(changes) THEN groups
    ELSE ActionReport_replacementGroups(changes, i + 1,
            ActionReport_push(groups, changes[i], i))

\* resource._color = color, for every change.
ActionReport_colored(changes) ==
    [ i \in 1..Len(changes) |->
        [changes[i] EXCEPT !.color = ActionReport_branch(changes[i]).color] ]

\* The summary: header and the four count lines.
ActionReport_summary(totalCount, groups) ==
    << [kind |-> "summaryHeader", totalCount |-> totalCount],
       [kind |-> "summary", emoji |-> "no_entry",
        label |-> "Resources to be removed",
        count |-> Len(groups["Removed resources"])],
       [kind |-> "summary", emoji |-> "red_circle",
        label |-> "Resources requiring replacement",
        count |-> Len(groups["Will be replaced"])],
       [kind |-> "summary", emoji |-> "yellow_circle",
        label |-> "Resources modified in-place",
        count |-> Len(groups["Modified without replacement"])],
       [kind |-> "summary", emoji |-> "green_circle",
        label |-> "New resources to be created",
        count |-> Len(groups["New resources"])] >>

\* ActionReport_colorEmoji without the case of the colour of removals.
ActionReport_colorEmoji_NoDarkRed(color) ==
    IF color = "red" THEN "red_circle"
    ELSE IF color = "yellow" THEN "yellow_circle"
    ELSE IF color = "green" THEN "green_circle"
    ELSE "white_circle"

\* colorEmoji chosen from resource._color; white when no colour matches.
ActionReport_colorEmoji(color) ==
    IF color = "darkred" THEN "no_entry"
    ELSE IF color = "red" THEN "red_circle"
    ELSE IF color = "yellow" THEN "yellow_circle"
    ELSE IF color = "green" THEN "green_circle"
    ELSE "white_circle"

\* ActionReport_textColorCodeLength with a 256-colour sequence for red.
ActionReport_textColorCodeLength_LongRed(color) ==
    IF color = "red" THEN 11   \* ESC [ 3 8 ; 5 ; 1 9 6 m
    ELSE IF color \in {"darkred", "yellow", "green"} THEN 5
    ELSE 0

\* textColorCode chosen from resource._color: the length of the escape
\* sequence, '' when no colour matches.
ActionReport_textColorCodeLength(color) ==
    IF color \in {"darkred", "red", "yellow", "green"}
    THEN 5   \* ESC [ 3 1 m
    ELSE 0

\* The .length of a marker emoji, in UTF-16 code units: U+26D4 and U+26AA
\* are one unit, U+1F534, U+1F7E1 and U+1F7E2 are surrogate pairs.
EmojiLength(emoji) ==
    IF emoji \in {"no_entry", "white_circle"} THEN 1 ELSE 2

\* The larger of two numbers: Math.max, and the length padEnd gives.
Max(a, b) == IF a >= b THEN a ELSE b

\* The largest number of a non-empty set.
Maximum(S) == CHOOSE m \in S : \A n \in S : n <= m

\* const padding = 2;
padding == 2

\* const ANSI_COLOR_LENGTH = 9;
ANSI_COLOR_LENGTH == 9

\* resource.Action.length of the width loop throws a TypeError when the
\* Action property is absent.
ActionReport_lengthThrows(changes) ==
    \E i \in 1..Len(changes) : changes[i].Action = Undefined

\* colWidths: per column the longest of the header and of the contents the
\* loop measures, plus the padding.
ActionReport_colWidths(changes) ==
    LET rows == 1..Len(changes)
    IN  [ Resource |->
            Maximum({Len("Resource")}
                \cup { Len(changes[i].LogicalResourceId) + 2 : i \in rows })
            + padding,
          Type |->
            Maximum({Len("Type")}
                \cup { Len(changes[i].ResourceType) : i \in rows })
            + padding,
          Action |->
            Maximum({Len("Action")}
                \cup { Len(changes[i].Action) : i \in rows })
            + padding,
          Replacement |->
            Maximum({Len("Replacement")}
                \cup { Len(OrNA(changes[i].Replacement)) : i \in rows })
            + padding ]

\* A cell: a text of content characters with escapes escape characters
\* embedded, after .padEnd(target).
PaddedCell(content, escapes, target) ==
    [ content |-> content,
      escapes |-> escapes,
      length  |-> Max(content + escapes, target) ]

\* The length of `${i+1}`: the number of decimal digits.
DecimalLength(n) == IF n < 10 THEN 1 ELSE IF n < 100 THEN 2 ELSE 3

\* One data row of the overview table, for the i-th change: its cells, the
\* length of the line and the number of escape characters in the line.
ActionReport_row(resource, i, colWidths) ==
    LET color == resource.color
        colorEmoji == ActionReport_colorEmoji(color)
        \* textColorCode and the closing reset, ESC [ 0 m
        escapes == ActionReport_textColorCodeLength(color) + 4
        resourceCell ==
            PaddedCell(EmojiLength(colorEmoji) + 1 + Len(resource.LogicalResourceId),
                       escapes, colWidths.Resource + ANSI_COLOR_LENGTH)
        typeCell == PaddedCell(Len(resource.ResourceType), 0, colWidths.Type)
        actionCell ==
            PaddedCell(Len(resource.Action),
                       escapes, colWidths.Action + ANSI_COLOR_LENGTH)
        replacementCell ==
            PaddedCell(Len(OrNA(resource.Replacement)),
                       escapes, colWidths.Replacement + ANSI_COLOR_LENGTH)
        \* the five white bars of the template, each ESC [ 9 7 m ... ESC [ 0 m
        barEscapes == 5 * (5 + 4)
    IN  [ kind              |-> "row",
          index             |-> i,
          emoji             |-> colorEmoji,
          LogicalResourceId |-> resource.LogicalResourceId,
          ResourceType      |-> resource.ResourceType,
          Action            |-> resource.Action,
          Replacement       |-> OrNA(resource.Replacement),
          resourceCell      |-> resourceCell,
          typeCell          |-> typeCell,
          actionCell        |-> actionCell,
          replacementCell   |-> replacementCell,
          escapes           |-> barEscapes + resourceCell.escapes + typeCell.escapes
                                + actionCell.escapes + replacementCell.escapes,
          \* `| ${i+1} |` then per cell ` ${cell} |`
          length            |-> barEscapes + 2 + DecimalLength(i) + 2
                                + (1 + resourceCell.length + 2)
                                + (1 + typeCell.length + 2)
                                + (1 + actionCell.length + 2)
                                + (1 + replacementCell.length + 2) ]

\* The header row and the separator row: `| # | ` or `| - | `, then the
\* four column texts padded or repeated to the column widths, joined by
\* ` | `, between ESC [ 9 7 m and ESC [ 0 m.
ActionReport_rule(kind, colWidths) ==
    [ kind      |-> kind,
      colWidths |-> colWidths,
      escapes   |-> 5 + 4,
      length    |-> (5 + 4) + 6
                    + Max(Len("Resource"), colWidths.Resource) + 3
                    + Max(Len("Type"), colWidths.Type) + 3
                    + Max(Len("Action"), colWidths.Action) + 3
                    + Max(Len("Replacement"), colWidths.Replacement) + 2 ]

\* The overview table: title, header row, separator row, data rows.
ActionReport_table(changes) ==
    LET colWidths == ActionReport_colWidths(changes)
    IN  << [kind |-> "tableTitle", text |-> "All Changes"],
           ActionReport_rule("tableHeader", colWidths),
           ActionReport_rule("tableSeparator", colWidths) >>
        \o [ i \in 1..Len(changes) |-> ActionReport_row(changes[i], i, colWidths) ]

\* The filter of the replacement causes: detail => Evaluation === 'Dynamic'
\* || RequiresRecreation === 'Always' || RequiresRecreation === 'Conditionally'
ActionReport_isCause(detail) ==
    \/ detail.Evaluation = "Dynamic"
    \/ detail.Target.RequiresRecreation = "Always"
    \/ detail.Target.RequiresRecreation = "Conditionally"

\* What follows the "Replacement Reason" heading of a block.
ActionReport_reasons(resource) ==
    IF HasDetails(resource)
    THEN LET replacementCauses ==
                 SelectSeq(resource.Details.items, ActionReport_isCause)
         IN  IF Len(replacementCauses) > 0
             THEN [ j \in 1..Len(replacementCauses) |->
                      [ kind |-> "cause",
                        Name |-> replacementCauses[j].Target.Name,
                        RequiresRecreation |->
                            replacementCauses[j].Target.RequiresRecreation ] ]
             ELSE << [kind |-> "implicit",
                      text |-> "Implicit replacement due to dependent resource changes"] >>
    ELSE <<>>

\* isReplacementCause of the "All Property Changes" listing.
ActionReport_isReplacementCause(detail) ==
    \/ detail.Target.RequiresRecreation = "Always"
    \/ detail.Target.RequiresRecreation = "Conditionally"

\* One line per detail of a resource, under the given heading; highlight
\* is the set of the details that get the warning prefix.
PropertyLines(resource, label, highlight) ==
    IF HasDetails(resource)
    THEN << [kind |-> "propertiesHeader", label |-> label] >>
         \o [ j \in 1..Len(resource.Details.items) |->
                LET detail == resource.Details.items[j]
                IN  [ kind         |-> "property",
                      prefix       |-> detail \in highlight,
                      Name         |-> detail.Target.Name,
                      ChangeSource |-> detail.ChangeSource,
                      Attribute    |-> detail.Target.Attribute ] ]
    ELSE <<>>

\* The details of a resource, as a set.
DetailsOf(resource) ==
    { resource.Details.items[j] : j \in 1..Len(resource.Details.items) }

\* First line of a block: local index, logical id, resource type.
BlockHeading(section, localIndex, resource) ==
    [ kind              |-> "heading",
      section           |-> section,
      localIndex        |-> localIndex,
      LogicalResourceId |-> resource.LogicalResourceId,
      ResourceType      |-> resource.ResourceType ]

\* Block of one resource of 'Will be replaced'.
ActionReport_replacedBlock(resource, localIndex) ==
    << BlockHeading("Resources Requiring Replacement", localIndex, resource),
       [kind |-> "action", Action |-> resource.Action],
       [kind |-> "replacement", Replacement |-> resource.Replacement],
       [kind |-> "reasonHeader", text |-> "Replacement Reason"] >>
    \o ActionReport_reasons(resource)
    \o PropertyLines(resource, "All Property Changes",
            { detail \in DetailsOf(resource) : ActionReport_isReplacementCause(detail) })

\* Block of one resource of 'Modified without replacement'.
ActionReport_modifiedBlock(resource, localIndex) ==
    << BlockHeading("Resources Modified In-Place", localIndex, resource),
       [kind |-> "action", Action |-> resource.Action],
       [kind |-> "replacement", Replacement |-> OrNA(resource.Replacement)] >>
    \o PropertyLines(resource, "Property Changes", {})

\* Block of one resource of 'New resources'.
ActionReport_newBlock(resource, localIndex) ==
    << BlockHeading("New Resources", localIndex, resource),
       [kind |-> "action", Action |-> resource.Action] >>
    \o PropertyLines(resource, "Property Details", {})

\* Block of one resource of 'Removed resources'.
ActionReport_removedBlock(resource, localIndex) ==
    << BlockHeading("Resources Being Removed", localIndex, resource),
       [kind |-> "action", Action |-> resource.Action] >>
    \o PropertyLines(resource, "Resource Details", {})
    \o << [kind |-> "warning",
           text |-> "This resource will be PERMANENTLY DELETED"] >>

\* Section with the header emitted for an empty group too.
Section_AlwaysEmitted(entries, emoji, title, blocks) ==
    << [kind |-> "sectionHeader", emoji |-> emoji, title |-> title,
        count |-> Len(entries)] >>
    \o Flatten(blocks)

\* One detail section: nothing for an empty group, else the section header
\* and the blocks of the group's entries.
Section(entries, emoji, title, blocks) ==
    IF Len(entries) > 0
    THEN << [kind |-> "sectionHeader", emoji |-> emoji, title |-> title,
             count |-> Len(entries)] >>
         \o Flatten(blocks)
    ELSE <<>>

\* The detail sections, in the order the code emits them.
ActionReport_sections(changes, groups) ==
    LET replaced == groups["Will be replaced"]
        modified == groups["Modified without replacement"]
        new == groups["New resources"]
        removed == groups["Removed resources"]
    IN  Section(replaced, "red_circle", "Resources Requiring Replacement",
                [ n \in 1..Len(replaced) |->
                    ActionReport_replacedBlock(changes[replaced[n].resource], n) ])
        \o Section(modified, "yellow_circle", "Resources Modified In-Place",
                [ n \in 1..Len(modified) |->
                    ActionReport_modifiedBlock(changes[modified[n].resource], n) ])
        \o Section(new, "green_circle", "New Resources",
                [ n \in 1..Len(new) |->
                    ActionReport_newBlock(changes[new[n].resource], n) ])
        \o Section(removed, "no_entry", "Resources Being Removed",
                [ n \in 1..Len(removed) |->
                    ActionReport_removedBlock(changes[removed[n].resource], n) ])

\* if (totalCount > 0): the table and the sections are emitted.
ActionReport_hasTable(totalCount) == totalCount > 0

\* generateActionReport(changeset): the report it returns, the groups it
\* built and the changes as it leaves them (coloured).  changes.length
\* throws a TypeError when changes is null or undefined; the width loop
\* throws after the classification loop has coloured the resources.
generateActionReport(cs) ==
    LET changes == ActionReport_changes(cs).items
        totalCount == Len(changes)
        groups == ActionReport_replacementGroups(changes, 1, EmptyGroups)
        colored == ActionReport_colored(changes)
    IN  IF ActionReport_changes(cs).kind # "array"
        THEN [changes |-> cs.Changes.items] @@ Threw("TypeError")
        ELSE IF ActionReport_hasTable(totalCount) /\ ActionReport_lengthThrows(colored)
        THEN [changes |-> colored] @@ Threw("TypeError")
        ELSE
        [ threw |-> FALSE,
          report |->
            << [kind |-> "title", text |-> "Cloudformation Changeset Report"] >>
            \o ActionReport_summary(totalCount, groups)
            \o ( IF ActionReport_hasTable(totalCount)
                 THEN ActionReport_table(colored)
                      \o ActionReport_sections(colored, groups)
                 ELSE << [kind |-> "line", text |-> "No changes detected."] >> ),
          groups |-> groups,
          changes |-> colored ]

\* ------------------------------------------------------------------------
\* generatePRReport: the Markdown report
\* ------------------------------------------------------------------------
\* const changes = changeset.Changes || [];
PRReport_changes(cs) ==
    IF cs.Changes.kind = "array" THEN cs.Changes ELSE [kind |-> "array", items |-> <<>>]

\* PRReport_branch with the Add test put before the replacement test.
PRReport_branch_AddFirst(resource) ==
    LET needsReplacement == resource.Replacement = "True"
                            \/ resource.Replacement = "Conditional"
        isAdd == resource.Action = "Add"
        isRemove == resource.Action = "Remove"
    IN  IF isRemove THEN "Removed resources"
        ELSE IF isAdd THEN "New resources"
        ELSE IF needsReplacement THEN "Will be replaced"
        ELSE "Modified without replacement"

\* The group the categorisation loop pushes one resource to.
PRReport_branch(resource) ==
    LET needsReplacement == resource.Replacement = "True"
                            \/ resource.Replacement = "Conditional"
        isAdd == resource.Action = "Add"
        isRemove == resource.Action = "Remove"
    IN  IF isRemove THEN "Removed resources"
        ELSE IF needsReplacement THEN "Will be replaced"
        ELSE IF isAdd THEN "New resources"
        ELSE "Modified without replacement"

\* PRReport_push putting the entry at the front of the group.
PRReport_push_Prepend(groups, resource, i) ==
    [groups EXCEPT ![PRReport_branch(resource)] =
        <<[index |-> i, resource |-> i]>> \o @]

\* replacementGroups[...].push({ index: i+1, resource, change })
PRReport_push(groups, resource, i) ==
    [groups EXCEPT ![PRReport_branch(resource)] =
        Append(@, [index |-> i, resource |-> i])]

\* changes.forEach(...) of the categorisation.
RECURSIVE PRReport_replacementGroups(_, _, _)
PRReport_replacementGroups(changes, i, groups) ==
    IF i > Len(changes) THEN groups
    ELSE PRReport_replacementGroups(changes, i + 1,
            PRReport_push(groups, changes[i], i))

\* The stack and changeset information lines.
PRReport_information(cs) ==
    << [kind |-> "information", label |-> "Stack", value |-> cs.StackName],
       [kind |-> "information", label |-> "Changeset", value |-> cs.ChangeSetName],
       [kind |-> "information", label |-> "Status", value |-> cs.Status],
       [kind |-> "information", label |-> "Execution Status",
        value |-> OrNA(cs.ExecutionStatus)] >>

\* PRReport_summary with the count lines of the empty groups left out.
PRReport_summary_SkipEmpty(totalCount, groups) ==
    SelectSeq(
        << [kind |-> "summaryHeader", totalCount |-> totalCount],
           [kind |-> "summary", emoji |-> "no_entry",
            label |-> "Resources to be removed",
            count |-> Len(groups["Removed resources"])],
           [kind |-> "summary", emoji |-> "red_circle",
            label |-> "Resources requiring replacement",
            count |-> Len(groups["Will be replaced"])],
           [kind |-> "summary", emoji |-> "yellow_circle",
            label |-> "Resources modified in-place",
            count |-> Len(groups["Modified without replacement"])],
           [kind |-> "summary", emoji |-> "green_circle",
            label |-> "New resources to be created",
            count |-> Len(groups["New resources"])] >>,
        LAMBDA l : l.kind = "summaryHeader" \/ l.count > 0)

\* The summary: header and the four count lines.
PRReport_summary(totalCount, groups) ==
    << [kind |-> "summaryHeader", totalCount |-> totalCount],
       [kind |-> "summary", emoji |-> "no_entry",
        label |-> "Resources to be removed",
        count |-> Len(groups["Removed resources"])],
       [kind |-> "summary", emoji |-> "red_circle",
        label |-> "Resources requiring replacement",
        count |-> Len(groups["Will be replaced"])],
       [kind |-> "summary", emoji |-> "yellow_circle",
        label |-> "Resources modified in-place",
        count |-> Len(groups["Modified without replacement"])],
       [kind |-> "summary", emoji |-> "green_circle",
        label |-> "New resources to be created",
        count |-> Len(groups["New resources"])] >>

\* emoji of a table row, recomputed from the action and the replacement.
PRReport_emoji(resource) ==
    LET needsReplacement == resource.Replacement = "True"
                            \/ resource.Replacement = "Conditional"
        isAdd == resource.Action = "Add"
        isRemove == resource.Action = "Remove"
    IN  IF isRemove THEN "no_entry"
        ELSE IF needsReplacement THEN "red_circle"
        ELSE IF isAdd THEN "green_circle"
        ELSE "yellow_circle"

\* One data row of the overview table, for the i-th change.
PRReport_row(resource, i) ==
    [ kind              |-> "row",
      index             |-> i,
      emoji             |-> PRReport_emoji(resource),
      LogicalResourceId |-> resource.LogicalResourceId,
      ResourceType      |-> resource.ResourceType,
      Action            |-> resource.Action,
      Replacement       |-> OrNA(resource.Replacement) ]

\* PRReport_table with the rows taken from the groups, category by
\* category, instead of from the changes.
PRReport_table_Grouped(changes) ==
    LET groups == PRReport_replacementGroups(changes, 1, EmptyGroups)
        entries == groups["Will be replaced"]
                   \o groups["Modified without replacement"]
                   \o groups["New resources"]
                   \o groups["Removed resources"]
    IN  << [kind |-> "tableTitle", text |-> "All Changes"],
           [kind |-> "tableHeader"],
           [kind |-> "tableSeparator"] >>
        \o [ k \in 1..Len(entries) |->
               PRReport_row(changes[entries[k].resource], entries[k].index) ]

\* The overview table: title, header row, separator row, data rows.
PRReport_table(changes) ==
    << [kind |-> "tableTitle", text |-> "All Changes"],
       [kind |-> "tableHeader"],
       [kind |-> "tableSeparator"] >>
    \o [ i \in 1..Len(changes) |-> PRReport_row(changes[i], i) ]

\* PRReport_isCause without the test of the evaluation.
PRReport_isCause_NoDynamic(detail) ==
    \/ detail.Target.RequiresRecreation = "Always"
    \/ detail.Target.RequiresRecreation = "Conditionally"

\* The filter of the replacement causes.
PRReport_isCause(detail) ==
    \/ detail.Evaluation = "Dynamic"
    \/ detail.Target.RequiresRecreation = "Always"
    \/ detail.Target.RequiresRecreation = "Conditionally"

\* What follows the "Replacement Reason" heading of a block.
PRReport_reasons(resource) ==
    IF HasDetails(resource)
    THEN LET replacementCauses ==
                 SelectSeq(resource.Details.items, PRReport_isCause)
         IN  IF Len(replacementCauses) > 0
             THEN [ j \in 1..Len(replacementCauses) |->
                      [ kind |-> "cause",
                        Name |-> replacementCauses[j].Target.Name,
                        RequiresRecreation |->
                            replacementCauses[j].Target.RequiresRecreation ] ]
             ELSE << [kind |-> "implicit",
                      text |-> "Implicit replacement due to dependent resource changes"] >>
    ELSE <<>>

\* isReplacementCause of the "All Property Changes" listing.
PRReport_isReplacementCause(detail) ==
    \/ detail.Target.RequiresRecreation = "Always"
    \/ detail.Target.RequiresRecreation = "Conditionally"

\* Block of one resource of 'Will be replaced'.
PRReport_replacedBlock(resource, localIndex) ==
    << BlockHeading("Resources Requiring Replacement", localIndex, resource),
       [kind |-> "action", Action |-> resource.Action],
       [kind |-> "replacement", Replacement |-> resource.Replacement],
       [kind |-> "reasonHeader", text |-> "Replacement Reason"] >>
    \o PRReport_reasons(resource)
    \o PropertyLines(resource, "All Property Changes",
            { detail \in DetailsOf(resource) : PRReport_isReplacementCause(detail) })

\* Block of one resource of 'Modified without replacement'.
PRReport_modifiedBlock(resource, localIndex) ==
    << BlockHeading("Resources Modified In-Place", localIndex, resource),
       [kind |-> "action", Action |-> resource.Action],
       [kind |-> "replacement", Replacement |-> OrNA(resource.Replacement)] >>
    \o PropertyLines(resource, "Property Changes", {})

\* Block of one resource of 'New resources'.
PRReport_newBlock(resource, localIndex) ==
    << BlockHeading("New Resources", localIndex, resource),
       [kind |-> "action", Action |-> resource.Action] >>
    \o PropertyLines(resource, "Property Details", {})

\* Block of one resource of 'Removed resources'.
PRReport_removedBlock(resource, localIndex) ==
    << BlockHeading("Resources Being Removed", localIndex, resource),
       [kind |-> "action", Action |-> resource.Action] >>
    \o PropertyLines(resource, "Resource Details", {})
    \o << [kind |-> "warning",
           text |-> "This resource will be PERMANENTLY DELETED"] >>

\* The detail sections, in the order the code emits them.
PRReport_sections(changes, groups) ==
    LET replaced == groups["Will be replaced"]
        modified == groups["Modified without replacement"]
        new == groups["New resources"]
        removed == groups["Removed resources"]
    IN  Section(replaced, "red_circle", "Resources Requiring Replacement",
                [ n \in 1..Len(replaced) |->
                    PRReport_replacedBlock(changes[replaced[n].resource], n) ])
        \o Section(modified, "yellow_circle", "Resources Modified In-Place",
                [ n \in 1..Len(modified) |->
                    PRReport_modifiedBlock(changes[modified[n].resource], n) ])
        \o Section(new, "green_circle", "New Resources",
                [ n \in 1..Len(new) |->
                    PRReport_newBlock(changes[new[n].resource], n) ])
        \o Section(removed, "no_entry", "Resources Being Removed",
                [ n \in 1..Len(removed) |->
                    PRReport_removedBlock(changes[removed[n].resource], n) ])

\* if (totalCount > 0): the table and the sections are emitted.
PRReport_hasTable(totalCount) == totalCount > 0

\* generatePRReport(changeset): the report it returns and the groups it
\* built; it leaves the changeset as it is.  changes.length throws a
\* TypeError when changes is null or undefined.
generatePRReport(cs) ==
    LET changes == PRReport_changes(cs).items
        totalCount == Len(changes)
        groups == PRReport_replacementGroups(changes, 1, EmptyGroups)
    IN  IF PRReport_changes(cs).kind # "array" THEN Threw("TypeError") ELSE
        [ threw |-> FALSE,
          report |->
            << [kind |-> "title", text |-> "CloudFormation Changeset Report"] >>
            \o PRReport_information(cs)
            \o PRReport_summary(totalCount, groups)
            \o ( IF PRReport_hasTable(totalCount)
                 THEN PRReport_table(changes)
                      \o PRReport_sections(changes, groups)
                 ELSE << [kind |-> "line", text |-> "No changes detected."] >> ),
          groups |-> groups ]

\* ------------------------------------------------------------------------
\* The state machine: a changeset, and the renderers called on it
\* ------------------------------------------------------------------------
\* The run as the renderers see it: run() has described the changeset and
\* is at the report generation, with nothing output or logged by the steps
\* modelled here.
AtReportGeneration ==
    /\ inputs = [ stackName |-> "my-stack", changesetName |-> "my-changeset",
                  commentOnPR |-> "true", githubToken |-> "token",
                  deleteChangeset |-> "true", eventName |-> "pull_request" ]
    /\ pc = "report"
    /\ listResult = [called |-> FALSE, Summaries |-> [kind |-> Undefined, items |-> <<>>]]
    /\ actualChangesetName = "my-changeset"
    /\ noChangesetFound = FALSE
    /\ outputs = <<>>
    /\ failed = <<>>
    /\ log = <<>>
    /\ calls = <<>>
    /\ comments = <<>>
    /\ runs = <<>>

Init ==
    /\ changeset \in Changesets
    /\ actionReport = NotCalled
    /\ actionGroups = EmptyGroups
    /\ actionOutcome = "none"
    /\ prReport = NotCalled
    /\ prGroups = EmptyGroups
    /\ prOutcome = "none"
    /\ AtReportGeneration

\* report = generateActionReport(changeset)
GenerateActionReport ==
    LET result == generateActionReport(changeset)
    IN  IF result.threw
        THEN /\ actionOutcome' = "threw"
             /\ changeset' =
                  IF changeset.Changes.kind = "array"
                  THEN [changeset EXCEPT !.Changes.items = result.changes]
                  ELSE changeset
             /\ UNCHANGED <<actionReport, actionGroups,
                            prReport, prGroups, prOutcome, runVars>>
        ELSE /\ actionOutcome' = "returned"
             /\ actionReport' = result.report
             /\ actionGroups' = result.groups
             /\ changeset' =
                  IF changeset.Changes.kind = "array"
                  THEN [changeset EXCEPT !.Changes.items = result.changes]
                  ELSE changeset
             /\ UNCHANGED <<prReport, prGroups, prOutcome, runVars>>

\* markdownReport = generatePRReport(changeset)
GeneratePRReport ==
    LET result == generatePRReport(changeset)
    IN  IF result.threw
        THEN /\ prOutcome' = "threw"
             /\ UNCHANGED <<changeset, actionReport, actionGroups, actionOutcome,
                            prReport, prGroups, runVars>>
        ELSE /\ prOutcome' = "returned"
             /\ prReport' = result.report
             /\ prGroups' = result.groups
             /\ UNCHANGED <<changeset, actionReport, actionGroups, actionOutcome,
                            runVars>>

Next == GenerateActionReport \/ GeneratePRReport

Spec == Init /\ [][Next]_vars

\* ------------------------------------------------------------------------
\* Changesets whose resource changes may lack the Action property
\* ------------------------------------------------------------------------
\* Changes lists of n resource changes in which Action, Replacement and
\* Details may each be absent.
MissingChanges(n) ==
    { [k \in 1..n |-> ResourceChange(k, f[k][1], f[k][2], AbsentDetails)] :
        f \in [1..n -> (Actions \cup {Undefined}) \X Replacements] }

\* The described changeset, with optional properties possibly absent.
MissingChangesets ==
    [ StackName       : {"my-stack"},
      ChangeSetName   : {"my-changeset"},
      Status          : {"CREATE_COMPLETE"},
      ExecutionStatus : {"AVAILABLE"},
      Changes         : { [kind |-> "array", items |-> c] :
                            c \in UNION { MissingChanges(n) : n \in 1..MaxChanges } } ]

InitMissing ==
    /\ changeset \in MissingChangesets
    /\ actionReport = NotCalled
    /\ actionGroups = EmptyGroups
    /\ actionOutcome = "none"
    /\ prReport = NotCalled
    /\ prGroups = EmptyGroups
    /\ prOutcome = "none"
    /\ AtReportGeneration

SpecMissing == InitMissing /\ [][Next]_vars

\* ------------------------------------------------------------------------
\* Changesets with many resource changes
\* ------------------------------------------------------------------------
\* The most changes of a long changeset.
MaxRows == 10

\* Changes lists of up to MaxRows resource changes that all have the same
\* action and replacement.
LongChanges ==
    { [k \in 1..n |-> ResourceChange(k, a, r, AbsentDetails)] :
        n \in 1..MaxRows, a \in Actions, r \in Replacements }

\* The described changeset.
LongChangesets ==
    [ StackName       : {"my-stack"},
      ChangeSetName   : {"my-changeset"},
      Status          : {"CREATE_COMPLETE"},
      ExecutionStatus : {"AVAILABLE"},
      Changes         : { [kind |-> "array", items |-> c] : c \in LongChanges } ]

InitLong ==
    /\ changeset \in LongChangesets
    /\ actionReport = NotCalled
    /\ actionGroups = EmptyGroups
    /\ actionOutcome = "none"
    /\ prReport = NotCalled
    /\ prGroups = EmptyGroups
    /\ prOutcome = "none"
    /\ AtReportGeneration

SpecLong == InitLong /\ [][Next]_vars

\* ------------------------------------------------------------------------
\* run(): inputs, and what AWS and GitHub may answer
\* ------------------------------------------------------------------------
\* The most summaries a listing returns.
MaxSummaries == 2

\* Creation times are 1..MaxTime.
MaxTime == 2

\* ChangeSetName of the k-th summary of a listing.
ChangeSetNames == <<"changeset-a", "changeset-b", "changeset-c", "changeset-d">>

\* The inputs 'stack-name' (required), 'changeset-name', 'comment-on-pr',
\* 'github-token' and 'delete-changeset' of the action, and
\* github.context.eventName.  run() reads the first four with core.getInput
\* and never reads 'delete-changeset'.
RunInputs ==
    [ stackName       : {"", "my-stack"},
      changesetName   : {"", "my-changeset"},
      commentOnPR     : {"true", "False"},
      githubToken     : {"", "token"},
      deleteChangeset : {"true", "false"},
      eventName       : {"push", "pull_request"} ]

\* String.prototype.toLowerCase on the values of 'comment-on-pr'.
toLowerCase(value) == IF value = "False" THEN "false" ELSE value

\* const commentOnPR = core.getInput('comment-on-pr').toLowerCase() !== 'false'
commentOnPR(in) == toLowerCase(in.commentOnPR) # "false"

\* context.eventName === 'pull_request' || 'pull_request_target'
isPullRequest(in) == in.eventName \in {"pull_request", "pull_request_target"}

\* Summaries arrays of n summaries.
SummariesLists(n) ==
    { [k \in 1..n |-> [ChangeSetName |-> ChangeSetNames[k], CreationTime |-> t[k]]] :
        t \in [1..n -> 1..MaxTime] }

\* listResult.Summaries: an array, or absent.
SummariesValues ==
    { [kind |-> "array", items |-> l] :
        l \in UNION { SummariesLists(n) : n \in 0..MaxSummaries } }
    \cup { [kind |-> Undefined, items |-> <<>>] }

\* Insertion of a summary behind every summary that is not older: the
\* comparator new Date(b.CreationTime) - new Date(a.CreationTime) of a
\* stable sort.
RECURSIVE InsertByCreationTime(_, _)
InsertByCreationTime(sorted, summary) ==
    IF sorted = <<>> THEN <<summary>>
    ELSE IF Head(sorted).CreationTime >= summary.CreationTime
         THEN <<Head(sorted)>> \o InsertByCreationTime(Tail(sorted), summary)
         ELSE <<summary>> \o sorted

\* listResult.Summaries.sort((a, b) => new Date(b.CreationTime) - new Date(a.CreationTime))
RECURSIVE SortSummaries(_)
SortSummaries(summaries) ==
    IF summaries = <<>> THEN <<>>
    ELSE InsertByCreationTime(SortSummaries(SubSeq(summaries, 1, Len(summaries) - 1)),
                              summaries[Len(summaries)])

\* listResult.Summaries && listResult.Summaries.length > 0
hasSummaries(Summaries) == Summaries.kind = "array" /\ Len(Summaries.items) > 0

\* latestChangeset without the sort: the first summary as listed.
latestChangeset_FirstListed(Summaries) == Summaries.items[1].ChangeSetName

\* actualChangesetName = listResult.Summaries[0].ChangeSetName, after the sort.
latestChangeset(Summaries) == SortSummaries(Summaries.items)[1].ChangeSetName

\* The rejection of an AWS call and of a GitHub call.
AwsError == [message |-> "AccessDenied"]

GitHubError == [message |-> "Resource not accessible by integration"]

\* Changes of the changesets describeChangeSet answers with; the last one
\* has a resource change without Action.
RunChanges ==
    { <<>>,
      <<ResourceChange(1, "Add", Undefined, AbsentDetails)>>,
      <<ResourceChange(1, "Modify", "True", AbsentDetails),
        ResourceChange(2, "Remove", Undefined, AbsentDetails)>>,
      <<ResourceChange(1, Undefined, Undefined, AbsentDetails)>> }

\* What describeChangeSet(params) may resolve to.
DescribedChangesets(params) ==
    { [ StackName       |-> params.StackName,
        ChangeSetName   |-> params.ChangeSetName,
        Status          |-> status,
        ExecutionStatus |-> "AVAILABLE",
        Changes         |-> [kind |-> "array", items |-> c] ] :
        status \in {"CREATE_COMPLETE", "FAILED"}, c \in RunChanges }

\* let changeset; before it is assigned.
NoChangeset ==
    [ StackName       |-> Undefined,
      ChangeSetName   |-> Undefined,
      Status          |-> Undefined,
      ExecutionStatus |-> Undefined,
      Changes         |-> [kind |-> Undefined, items |-> <<>>] ]

\* The minimal changeset object built when no changeset was found.
placeholderChangeset(stackName) ==
    [ StackName       |-> stackName,
      ChangeSetName   |-> "NO_CHANGESETS",
      Status          |-> "NONE",
      ExecutionStatus |-> "UNAVAILABLE",
      Changes         |-> [kind |-> "array", items |-> <<>>] ]

\* The fixed ANSI report of a stack without changesets.
noChangesetReport(stackName) ==
    << [kind |-> "title", text |-> "Cloudformation Changeset Report"],
       [kind |-> "noChangesets", stackName |-> stackName],
       [kind |-> "line",
        text |-> "Ensure the stack exists and has at least one changeset created."] >>

\* The fixed Markdown report of a stack without changesets.
noChangesetMarkdown(stackName) ==
    << [kind |-> "title", text |-> "CloudFormation Changeset Report"],
       [kind |-> "information", label |-> "Stack", value |-> stackName],
       [kind |-> "information", label |-> "Status", value |-> "NO_CHANGESETS"],
       [kind |-> "heading", text |-> "No Changesets Found"],
       [kind |-> "line", text |-> "No changesets were found for this stack. This could mean:"],
       [kind |-> "line", text |-> "- The stack doesn't have any pending changes"],
       [kind |-> "line", text |-> "- The stack might not exist"],
       [kind |-> "line", text |-> "- All changesets have been executed or deleted"],
       [kind |-> "line",
        text |-> "Try creating a new changeset for this stack if you need to make changes."] >>

\* ------------------------------------------------------------------------
\* run(): log lines, outputs, error handlers, comment bodies
\* ------------------------------------------------------------------------
\* core.info(`text ${arg}`)
Info(text, arg) == [level |-> "info", text |-> text, arg |-> arg]

\* core.warning(`text ${arg}`)
Warning(text, arg) == [level |-> "warning", text |-> text, arg |-> arg]

\* logReport(report): one core.info per line of the report.
logReport(report) ==
    [ k \in 1..Len(report) |-> [level |-> "info", line |-> report[k]] ]

\* core.setOutput(name, value)
setOutput(outs, name, value) ==
    [ n \in (DOMAIN outs) \cup {name} |-> IF n = name THEN value ELSE outs[n] ]

\* noChangesetFound ? 'NO_CHANGESETS' : actualChangesetName, with the
\* sentinel in both cases.
changesetNameOutput_Sentinel(noFound, name) == "NO_CHANGESETS"

\* noChangesetFound ? 'NO_CHANGESETS' : actualChangesetName
changesetNameOutput(noFound, name) ==
    IF noFound THEN "NO_CHANGESETS" ELSE name

\* setOutputs without the changeset-status output.
setOutputs_NoStatus(outs, report, name, status) ==
    setOutput(setOutput(outs, "report", report), "changeset-name", name)

\* The three core.setOutput calls, in their order.
setOutputs(outs, report, name, status) ==
    setOutput(setOutput(setOutput(outs, "report", report),
                        "changeset-name", name),
              "changeset-status", status)

\* The outer catch turned into a warning that does not fail the run.
outerCatch_WarnOnly(error) ==
    [ failed |-> <<>>,
      log    |-> <<Warning("Action failed", error.message)>> ]

\* catch (error) { core.setFailed(`Action failed: ${error.message}`); }
outerCatch(error) ==
    [ failed |-> << [text |-> "Action failed", message |-> error.message] >>,
      log    |-> <<>> ]

\* The catch of the comment phase rethrowing to the outer catch.
commentCatch_Rethrow(error) == outerCatch(error)

\* The catch of the comment phase: five warnings.
commentCatch(error) ==
    [ failed |-> <<>>,
      log    |->
        << Warning("Failed to comment on PR", error.message),
           Warning("To fix this, ensure your workflow has the necessary permissions:", ""),
           Warning("1. Add 'permissions: write-all' or 'permissions: { pull-requests: write }' to your workflow", ""),
           Warning("2. If running on PR from a fork, use 'pull_request_target' event instead of 'pull_request'", ""),
           Warning("3. Ensure GITHUB_TOKEN is passed to the action with 'github-token: ${{ github.token }}'", "") >> ]

\* Listing an empty stack as an error, as in the earlier run().
noChangesets_Throw(stackName) ==
    [ threw |-> TRUE,
      error |-> [message |-> "No changesets found for stack"],
      log   |-> <<>> ]

\* The else branch of the listing: a warning, and noChangesetFound = true.
noChangesets(stackName) ==
    [ threw |-> FALSE,
      error |-> [message |-> ""],
      log   |-> <<Warning("No changesets found for stack", stackName)>> ]

\* core.getInput('stack-name', { required: true }) without a value.
requiredInputError == [message |-> "Input required and not supplied: stack-name"]

\* The TypeError a renderer throws.
rendererError == [message |-> "Cannot read properties of undefined"]

\* throw new Error("GitHub token not found. ...")
tokenError == [message |-> "GitHub token not found. Make sure to provide the 'github-token' input."]

\* throw new Error(`Insufficient permissions to access PR data: ${permError.message}. ...`)
permissionError(permError) ==
    [message |-> "Insufficient permissions to access PR data", cause |-> permError.message]

\* A comment body is a sequence of parts.
\* `<!-- CloudFormation ChangeSets Report -->`
genericMarker == [token |-> "genericMarker"]

\* `<!-- CloudFormation ChangeSets for stack: ${stackName} -->`
commentMarker(stackName) == [token |-> "commentMarker", stackName |-> stackName]

\* A Markdown report inside a body; it starts with the report title.
markdownPart(markdownReport) == [token |-> "markdownReport", report |-> markdownReport]

\* `\n\n---\n\n`
separator == [token |-> "separator"]

\* Text of somebody else.
otherText == [token |-> "text"]

\* comment.body.includes(part), for a marker
includes(body, part) == \E k \in 1..Len(body) : body[k] = part

\* The search without the report title: no body is taken to carry it.
includesTitle_Never(body) == FALSE

\* comment.body.includes('# CloudFormation Changeset Report')
includesTitle(body) == \E k \in 1..Len(body) : body[k].token = "markdownReport"

\* existingComments.data.find(comment => comment.body.includes(commentMarker)):
\* the position of the comment found, 0 for undefined.
existingStackComment(existingComments, stackName) ==
    LET found == { k \in 1..Len(existingComments) :
                     includes(existingComments[k].body, commentMarker(stackName)) }
    IN  IF found = {} THEN 0 ELSE CHOOSE k \in found : \A j \in found : k <= j

\* existingComments.data.find(comment => comment.body.includes(genericMarker)
\*   || comment.body.includes('# CloudFormation Changeset Report'))
anyCfnComment(existingComments) ==
    LET found == { k \in 1..Len(existingComments) :
                     \/ includes(existingComments[k].body, genericMarker)
                     \/ includesTitle(existingComments[k].body) }
    IN  IF found = {} THEN 0 ELSE CHOOSE k \in found : \A j \in found : k <= j

\* const reportWithMarker = `${commentMarker}\n${markdownReport}`
reportWithMarker(stackName, markdownReport) ==
    << commentMarker(stackName), markdownPart(markdownReport) >>

\* updatedBody of the append branch.
updatedBody(body, stackName, markdownReport) ==
    IF ~includes(body, genericMarker)
    THEN <<genericMarker>> \o body \o <<separator, markdownPart(markdownReport)>>
    ELSE body \o <<separator, commentMarker(stackName), markdownPart(markdownReport)>>

\* const fullReport = `${genericMarker}\n${commentMarker}\n${markdownReport}`
fullReport(stackName, markdownReport) ==
    << genericMarker, commentMarker(stackName), markdownPart(markdownReport) >>

\* A Markdown report posted by an earlier run.
earlierReport ==
    << [kind |-> "title", text |-> "CloudFormation Changeset Report"] >>

\* The comments the pull request may have when the run starts.
InitialComments ==
    { <<>>,
      << [id |-> 1, body |-> <<otherText>>] >>,
      << [id |-> 1, body |-> <<otherText>>],
         [id |-> 2, body |-> fullReport("my-stack", earlierReport)] >>,
      << [id |-> 1, body |-> fullReport("other-stack", earlierReport)] >>,
      << [id |-> 1, body |-> <<markdownPart(earlierReport)>>] >> }

\* A request, and the settling of the latest request.
Call(request) == [outcome |-> "pending"] @@ request

Settle(requests, outcome) ==
    [requests EXCEPT ![Len(requests)].outcome = outcome]

\* ------------------------------------------------------------------------
\* run(): one action per stretch of code between two awaits
\* ------------------------------------------------------------------------
\* The comment phase up to its first await: what it logs, whether it
\* generated the Markdown report, the request it leaves pending.
commentPhase(in, cs, noFound) ==
    IF ~(isPullRequest(in) /\ commentOnPR(in))
    THEN [ generated |-> FALSE,
           markdown |-> [threw |-> FALSE, report |-> NotCalled, groups |-> EmptyGroups],
           log |-> <<>>, failed |-> <<>>, calls |-> <<>>, pc |-> "done" ]
    ELSE
    LET markdown ==
            IF noFound
            THEN [ threw |-> FALSE, report |-> noChangesetMarkdown(in.stackName),
                   groups |-> EmptyGroups ]
            ELSE generatePRReport(cs)
        started ==
            <<Info("PR detected, attempting to add changeset report as a comment...", "")>>
        caught ==
            IF markdown.threw THEN commentCatch(rendererError)
            ELSE commentCatch(tokenError)
    IN  IF markdown.threw \/ in.githubToken = ""
        THEN [ generated |-> TRUE, markdown |-> markdown,
               log |-> started \o caught.log, failed |-> caught.failed,
               calls |-> <<>>, pc |-> "done" ]
        ELSE [ generated |-> TRUE, markdown |-> markdown,
               log |-> started, failed |-> <<>>,
               calls |-> <<Call([api |-> "pulls.get"])>>, pc |-> "pulls.get" ]

\* From the assignment of changeset to the first await of the comment
\* phase: the report, the three outputs, the log of the report, the start
\* of the comment phase.
ReportAndComment(cs, noFound, name, logBefore, callsBefore) ==
    LET result ==
            IF noFound
            THEN [ threw |-> FALSE, report |-> noChangesetReport(inputs.stackName),
                   groups |-> EmptyGroups, changes |-> <<>> ]
            ELSE generateActionReport(cs)
        colored == [cs EXCEPT !.Changes.items = result.changes]
        phase == commentPhase(inputs, colored, noFound)
        thrown == outerCatch(rendererError)
    IN  IF result.threw
        THEN /\ changeset' = colored
             /\ actionOutcome' = "threw"
             /\ failed' = failed \o thrown.failed
             /\ log' = logBefore \o thrown.log
             /\ calls' = callsBefore
             /\ pc' = "done"
             /\ UNCHANGED <<actionReport, actionGroups, prReport, prGroups,
                            prOutcome, outputs>>
        ELSE /\ changeset' = colored
             /\ actionReport' = result.report
             /\ actionGroups' = result.groups
             /\ actionOutcome' = IF noFound THEN actionOutcome ELSE "returned"
             /\ outputs' = setOutputs(outputs, result.report,
                                      changesetNameOutput(noFound, name),
                                      colored.Status)
             /\ log' = logBefore
                       \o logReport(result.report)
                       \o ( IF noFound
                            THEN <<Info("No changesets found for stack. Continuing execution.",
                                        inputs.stackName)>>
                            ELSE <<>> )
                       \o phase.log
             /\ failed' = failed \o phase.failed
             /\ calls' = callsBefore \o phase.calls
             /\ pc' = phase.pc
             /\ IF phase.generated /\ ~phase.markdown.threw
                THEN /\ prReport' = phase.markdown.report
                     /\ prGroups' = phase.markdown.groups
                     /\ prOutcome' = IF noFound THEN prOutcome ELSE "returned"
                ELSE /\ prOutcome' = IF phase.generated THEN "threw" ELSE prOutcome
                     /\ UNCHANGED <<prReport, prGroups>>

RunInit ==
    /\ inputs \in RunInputs
    /\ comments \in InitialComments
    /\ pc = "start"
    /\ changeset = NoChangeset
    /\ actionReport = NotCalled
    /\ actionGroups = EmptyGroups
    /\ actionOutcome = "none"
    /\ prReport = NotCalled
    /\ prGroups = EmptyGroups
    /\ prOutcome = "none"
    /\ listResult = [called |-> FALSE, Summaries |-> [kind |-> Undefined, items |-> <<>>]]
    /\ actualChangesetName = Undefined
    /\ noChangesetFound = FALSE
    /\ outputs = <<>>
    /\ failed = <<>>
    /\ log = <<>>
    /\ calls = <<>>
    /\ runs = <<>>

\* From the entry of run() to its first await.
RunStart ==
    /\ pc = "start"
    /\ IF inputs.stackName = ""
       THEN /\ failed' = failed \o outerCatch(requiredInputError).failed
            /\ log' = log \o outerCatch(requiredInputError).log
            /\ pc' = "done"
            /\ UNCHANGED <<actualChangesetName, calls>>
       ELSE /\ actualChangesetName' = inputs.changesetName
            /\ log' = log
                 \o << Info("Event Name", inputs.eventName),
                       Info("Stack Name", inputs.stackName) >>
                 \o ( IF inputs.changesetName = ""
                      THEN <<Info("No changeset name provided, finding the latest one...", "")>>
                      ELSE <<>> )
            /\ calls' = calls \o
                 ( IF inputs.changesetName = ""
                   THEN <<Call([api |-> "listChangeSets", StackName |-> inputs.stackName])>>
                   ELSE <<Call([api |-> "describeChangeSet",
                                ChangeSetName |-> inputs.changesetName,
                                StackName |-> inputs.stackName])>> )
            /\ pc' = IF inputs.changesetName = "" THEN "listChangeSets"
                     ELSE "describeChangeSet"
            /\ UNCHANGED failed
    /\ UNCHANGED <<rendererVars, inputs, runs, listResult, noChangesetFound, outputs,
                   comments>>

\* listChangeSets resolves: the latest changeset is selected and described,
\* or none is found and the run goes on with the placeholder.
ListChangeSetsReturns ==
    /\ pc = "listChangeSets"
    /\ \E Summaries \in SummariesValues :
         IF hasSummaries(Summaries)
         THEN /\ listResult' = [ called |-> TRUE,
                                 Summaries |-> [Summaries EXCEPT
                                                  !.items = SortSummaries(@)] ]
              /\ actualChangesetName' = latestChangeset(Summaries)
              /\ log' = log \o <<Info("Using latest changeset", actualChangesetName')>>
              /\ calls' = Settle(calls, "fulfilled")
                   \o <<Call([api |-> "describeChangeSet",
                              ChangeSetName |-> actualChangesetName',
                              StackName |-> inputs.stackName])>>
              /\ pc' = "describeChangeSet"
              /\ UNCHANGED <<rendererVars, noChangesetFound, outputs, failed>>
         ELSE /\ listResult' = [called |-> TRUE, Summaries |-> Summaries]
              /\ actualChangesetName' = actualChangesetName
              /\ IF noChangesets(inputs.stackName).threw
                 THEN /\ failed' = failed
                           \o outerCatch(noChangesets(inputs.stackName).error).failed
                      /\ log' = log
                           \o outerCatch(noChangesets(inputs.stackName).error).log
                      /\ calls' = Settle(calls, "fulfilled")
                      /\ pc' = "done"
                      /\ UNCHANGED <<rendererVars, noChangesetFound, outputs>>
                 ELSE /\ noChangesetFound' = TRUE
                      /\ ReportAndComment(placeholderChangeset(inputs.stackName), TRUE,
                                          actualChangesetName,
                                          log \o noChangesets(inputs.stackName).log,
                                          Settle(calls, "fulfilled"))
    /\ UNCHANGED <<inputs, runs, comments>>

\* listChangeSets rejects: the outer catch.
ListChangeSetsFails ==
    /\ pc = "listChangeSets"
    /\ failed' = failed \o outerCatch(AwsError).failed
    /\ log' = log \o outerCatch(AwsError).log
    /\ calls' = Settle(calls, "rejected")
    /\ pc' = "done"
    /\ UNCHANGED <<rendererVars, inputs, runs, listResult, actualChangesetName,
                   noChangesetFound, outputs, comments>>

\* describeChangeSet resolves.
DescribeChangeSetReturns ==
    /\ pc = "describeChangeSet"
    /\ \E cs \in DescribedChangesets([ ChangeSetName |-> actualChangesetName,
                                       StackName |-> inputs.stackName ]) :
         ReportAndComment(cs, FALSE, actualChangesetName, log,
                          Settle(calls, "fulfilled"))
    /\ UNCHANGED <<inputs, runs, listResult, actualChangesetName, noChangesetFound,
                   comments>>

\* describeChangeSet rejects: the outer catch.
DescribeChangeSetFails ==
    /\ pc = "describeChangeSet"
    /\ failed' = failed \o outerCatch(AwsError).failed
    /\ log' = log \o outerCatch(AwsError).log
    /\ calls' = Settle(calls, "rejected")
    /\ pc' = "done"
    /\ UNCHANGED <<rendererVars, inputs, runs, listResult, actualChangesetName,
                   noChangesetFound, outputs, comments>>

\* The catch of the comment phase after a rejected GitHub request.
CommentFails(error) ==
    /\ failed' = failed \o commentCatch(error).failed
    /\ log' = log \o commentCatch(error).log
    /\ calls' = Settle(calls, "rejected")
    /\ pc' = "done"
    /\ UNCHANGED <<rendererVars, inputs, runs, listResult, actualChangesetName,
                   noChangesetFound, outputs, comments>>

\* pulls.get resolves: the comments are requested.
PullsGetReturns ==
    /\ pc = "pulls.get"
    /\ calls' = Settle(calls, "fulfilled") \o <<Call([api |-> "issues.listComments"])>>
    /\ pc' = "issues.listComments"
    /\ UNCHANGED <<rendererVars, inputs, runs, listResult, actualChangesetName,
                   noChangesetFound, outputs, failed, log, comments>>

\* pulls.get rejects: rethrown as a permission error, caught by the comment
\* phase.
PullsGetFails ==
    /\ pc = "pulls.get"
    /\ CommentFails(permissionError(GitHubError))

\* issues.listComments resolves: the comment to write is chosen and the
\* write is requested.
ListCommentsReturns ==
    /\ pc = "issues.listComments"
    /\ LET existingComments == comments
           stackComment == existingStackComment(existingComments, inputs.stackName)
           cfnComment == anyCfnComment(existingComments)
           found == Info("Found total comments on this PR", "")
       IN  IF stackComment # 0
           THEN /\ log' = log \o
                     <<found, Info("Found existing comment for stack", inputs.stackName)>>
                /\ calls' = Settle(calls, "fulfilled") \o
                     <<Call([ api |-> "issues.updateComment",
                              comment_id |-> existingComments[stackComment].id,
                              body |-> reportWithMarker(inputs.stackName, prReport) ])>>
                /\ pc' = "issues.updateComment"
           ELSE IF cfnComment # 0
           THEN /\ log' = log \o
                     <<found, Info("Found existing CloudFormation comment. Appending stack",
                                   inputs.stackName)>>
                /\ calls' = Settle(calls, "fulfilled") \o
                     <<Call([ api |-> "issues.updateComment",
                              comment_id |-> existingComments[cfnComment].id,
                              body |-> updatedBody(existingComments[cfnComment].body,
                                                   inputs.stackName, prReport) ])>>
                /\ pc' = "issues.updateComment (append)"
           ELSE /\ log' = log \o <<found>>
                /\ calls' = Settle(calls, "fulfilled") \o
                     <<Call([ api |-> "issues.createComment",
                              body |-> fullReport(inputs.stackName, prReport) ])>>
                /\ pc' = "issues.createComment"
    /\ UNCHANGED <<rendererVars, inputs, runs, listResult, actualChangesetName,
                   noChangesetFound, outputs, failed, comments>>

\* issues.listComments rejects.
ListCommentsFails ==
    /\ pc = "issues.listComments"
    /\ CommentFails(GitHubError)

\* issues.updateComment resolves: GitHub holds the new body.
UpdateCommentReturns ==
    /\ pc \in {"issues.updateComment", "issues.updateComment (append)"}
    /\ LET request == calls[Len(calls)]
       IN  comments' = [ k \in 1..Len(comments) |->
                           IF comments[k].id = request.comment_id
                           THEN [comments[k] EXCEPT !.body = request.body]
                           ELSE comments[k] ]
    /\ log' = log \o
         << IF pc = "issues.updateComment"
            THEN Info("Updated existing PR comment for stack", inputs.stackName)
            ELSE Info("Appended stack to existing CloudFormation PR comment",
                      inputs.stackName),
            Info("Successfully posted CloudFormation changeset report as PR comment", "") >>
    /\ calls' = Settle(calls, "fulfilled")
    /\ pc' = "done"
    /\ UNCHANGED <<rendererVars, inputs, runs, listResult, actualChangesetName,
                   noChangesetFound, outputs, failed>>

\* issues.updateComment rejects.
UpdateCommentFails ==
    /\ pc \in {"issues.updateComment", "issues.updateComment (append)"}
    /\ CommentFails(GitHubError)

\* issues.createComment resolves: GitHub holds one more comment.
CreateCommentReturns ==
    /\ pc = "issues.createComment"
    /\ comments' = Append(comments, [ id |-> Len(comments) + 1,
                                      body |-> calls[Len(calls)].body ])
    /\ log' = log \o
         << Info("Created new PR comment for stack", inputs.stackName),
            Info("Successfully posted CloudFormation changeset report as PR comment", "") >>
    /\ calls' = Settle(calls, "fulfilled")
    /\ pc' = "done"
    /\ UNCHANGED <<rendererVars, inputs, runs, listResult, actualChangesetName,
                   noChangesetFound, outputs, failed>>

\* issues.createComment rejects.
CreateCommentFails ==
    /\ pc = "issues.createComment"
    /\ CommentFails(GitHubError)

RunNext ==
    \/ RunStart
    \/ ListChangeSetsReturns
    \/ ListChangeSetsFails
    \/ DescribeChangeSetReturns
    \/ DescribeChangeSetFails
    \/ PullsGetReturns
    \/ PullsGetFails
    \/ ListCommentsReturns
    \/ ListCommentsFails
    \/ UpdateCommentReturns
    \/ UpdateCommentFails
    \/ CreateCommentReturns
    \/ CreateCommentFails

SpecRun == RunInit /\ [][RunNext]_vars

\* ------------------------------------------------------------------------
\* Several runs of the action on one pull request
\* ------------------------------------------------------------------------
\* How many runs reach the comment phase, one after the other.
MaxRuns == 3

\* How many runs reach the comment phase when two of them may overlap.
MaxOverlappingRuns == 2

\* The stacks the runs report on.
StackNames == {"stack-a", "stack-b"}

\* The changesets a run may have described for its stack.
PostedChangesets(stackName) ==
    { [ StackName       |-> stackName,
        ChangeSetName   |-> "my-changeset",
        Status          |-> "CREATE_COMPLETE",
        ExecutionStatus |-> "AVAILABLE",
        Changes         |-> [kind |-> "array", items |-> c] ] :
        c \in { <<>>, <<ResourceChange(1, "Add", Undefined, AbsentDetails)>> } }

\* The comments the pull request may have before the first of the runs.
PostInitialComments ==
    { <<>>,
      << [id |-> 1, body |-> <<otherText>>] >>,
      << [id |-> 1, body |-> <<markdownPart(earlierReport)>>] >> }

\* A run that is not at the comment phase.
IdleRun == [pc |-> "idle", stackName |-> "", markdownReport |-> NotCalled, call |-> 0]

\* The comment phase without the searches: every run creates a comment.
commentRequest_AlwaysCreate(existingComments, stackName, markdownReport) ==
    [ pc |-> "issues.createComment",
      request |-> [ api |-> "issues.createComment",
                    body |-> fullReport(stackName, markdownReport) ] ]

\* The request the comment phase makes after listComments resolved to
\* existingComments: update the comment of the stack, else append to a
\* CloudFormation comment, else create a comment.
commentRequest(existingComments, stackName, markdownReport) ==
    LET stackComment == existingStackComment(existingComments, stackName)
        cfnComment   == anyCfnComment(existingComments)
    IN  IF stackComment # 0
        THEN [ pc |-> "issues.updateComment",
               request |-> [ api |-> "issues.updateComment",
                             comment_id |-> existingComments[stackComment].id,
                             body |-> reportWithMarker(stackName, markdownReport) ] ]
        ELSE IF cfnComment # 0
        THEN [ pc |-> "issues.updateComment (append)",
               request |-> [ api |-> "issues.updateComment",
                             comment_id |-> existingComments[cfnComment].id,
                             body |-> updatedBody(existingComments[cfnComment].body,
                                                  stackName, markdownReport) ] ]
        ELSE [ pc |-> "issues.createComment",
               request |-> [ api |-> "issues.createComment",
                             body |-> fullReport(stackName, markdownReport) ] ]

\* The runs that reached the comment phase so far, and how many may.
RunsStarted ==
    Cardinality({ k \in 1..Len(calls) : calls[k].api = "issues.listComments" })

RunLimit == IF Len(runs) = 1 THEN MaxRuns ELSE MaxOverlappingRuns

\* The pull request with its comments, and `slots` runs that may be at the
\* comment phase at the same time; the variables of the single run of
\* SpecRun stay as at its start.
PullRequest(slots) ==
    /\ comments \in PostInitialComments
    /\ runs = [r \in 1..slots |-> IdleRun]
    /\ calls = <<>>
    /\ inputs = [ stackName |-> "", changesetName |-> "", commentOnPR |-> "true",
                  githubToken |-> "token", deleteChangeset |-> "true",
                  eventName |-> "pull_request" ]
    /\ pc = "start"
    /\ changeset = NoChangeset
    /\ actionReport = NotCalled
    /\ actionGroups = EmptyGroups
    /\ actionOutcome = "none"
    /\ prReport = NotCalled
    /\ prGroups = EmptyGroups
    /\ prOutcome = "none"
    /\ listResult = [called |-> FALSE, Summaries |-> [kind |-> Undefined, items |-> <<>>]]
    /\ actualChangesetName = Undefined
    /\ noChangesetFound = FALSE
    /\ outputs = <<>>
    /\ failed = <<>>
    /\ log = <<>>

\* What a step of one of the runs leaves alone: the single run of SpecRun.
singleRunVars == <<rendererVars, inputs, pc, listResult, actualChangesetName,
                   noChangesetFound, outputs, failed, log>>

\* A run for one stack reaches the comment phase with its Markdown report
\* and asks for the comments of the pull request.
PostStart(r) ==
    /\ runs[r].pc \in {"idle", "done"}
    /\ RunsStarted < RunLimit
    /\ \E stackName \in StackNames : \E cs \in PostedChangesets(stackName) :
         /\ calls' = Append(calls, Call([ api |-> "issues.listComments",
                                          stackName |-> stackName ]))
         /\ runs' = [runs EXCEPT ![r] =
                        [ pc |-> "issues.listComments",
                          stackName |-> stackName,
                          markdownReport |-> generatePRReport(cs).report,
                          call |-> Len(calls) + 1 ]]
    /\ UNCHANGED <<singleRunVars, comments>>

\* issues.listComments resolves to the comments GitHub holds now; the run
\* chooses its request from them.
PostListCommentsReturns(r) ==
    /\ runs[r].pc = "issues.listComments"
    /\ LET chosen == commentRequest(comments, runs[r].stackName, runs[r].markdownReport)
       IN  /\ calls' = Append([calls EXCEPT ![runs[r].call].outcome = "fulfilled"],
                              Call(chosen.request @@ [stackName |-> runs[r].stackName]))
           /\ runs' = [runs EXCEPT ![r].pc = chosen.pc, ![r].call = Len(calls) + 1]
    /\ UNCHANGED <<singleRunVars, comments>>

\* issues.updateComment resolves: GitHub holds the body the run sent.
PostUpdateCommentReturns(r) ==
    /\ runs[r].pc \in {"issues.updateComment", "issues.updateComment (append)"}
    /\ LET request == calls[runs[r].call]
       IN  comments' = [ k \in 1..Len(comments) |->
                           IF comments[k].id = request.comment_id
                           THEN [comments[k] EXCEPT !.body = request.body]
                           ELSE comments[k] ]
    /\ calls' = [calls EXCEPT ![runs[r].call].outcome = "fulfilled"]
    /\ runs' = [runs EXCEPT ![r].pc = "done"]
    /\ UNCHANGED singleRunVars

\* issues.createComment resolves: GitHub holds one more comment.
PostCreateCommentReturns(r) ==
    /\ runs[r].pc = "issues.createComment"
    /\ comments' = Append(comments, [ id |-> Len(comments) + 1,
                                      body |-> calls[runs[r].call].body ])
    /\ calls' = [calls EXCEPT ![runs[r].call].outcome = "fulfilled"]
    /\ runs' = [runs EXCEPT ![r].pc = "done"]
    /\ UNCHANGED singleRunVars

\* The pending GitHub request of the run rejects: the catch of the comment
\* phase warns, and the run ends without having written.
PostFails(r) ==
    /\ runs[r].pc \in { "issues.listComments", "issues.updateComment",
                        "issues.updateComment (append)", "issues.createComment" }
    /\ calls' = [calls EXCEPT ![runs[r].call].outcome = "rejected"]
    /\ runs' = [runs EXCEPT ![r].pc = "done"]
    /\ UNCHANGED <<singleRunVars, comments>>

PostNext ==
    \/ \E r \in DOMAIN runs : PostStart(r)
    \/ \E r \in DOMAIN runs : PostListCommentsReturns(r)
    \/ \E r \in DOMAIN runs : PostUpdateCommentReturns(r)
    \/ \E r \in DOMAIN runs : PostCreateCommentReturns(r)
    \/ \E r \in DOMAIN runs : PostFails(r)

\* One run after the other.
InitSequential == PullRequest(1)

SpecSequential == InitSequential /\ [][PostNext]_vars

\* Two runs that may overlap.
InitConcurrent == PullRequest(2)

SpecConcurrent == InitConcurrent /\ [][PostNext]_vars

\* ------------------------------------------------------------------------
\* Vocabulary of the properties
\* ------------------------------------------------------------------------
\* The resource changes of the changeset, in API return order.
InputChanges ==
    IF changeset.Changes.kind = "array" THEN changeset.Changes.items ELSE <<>>

ActionReturned == actionOutcome = "returned"

PRReturned == prOutcome = "returned"

BothReturned == ActionReturned /\ PRReturned

\* The i-th change has an entry in group g of groups.
InGroup(groups, g, i) ==
    \E n \in 1..Len(groups[g]) : groups[g][n].resource = i

\* The lines of one kind of a report, in report order.
LinesOfKind(report, kind) == SelectSeq(report, LAMBDA l : l.kind = kind)

\* Replacement is True or Conditional.
FlaggedForReplacement(resource) ==
    resource.Replacement \in {"True", "Conditional"}

\* --- C1 ----------------------------------------------------------------
\* C1: every resource change whose action is Remove is in the Removed group
\* of generateActionReport and of generatePRReport, whatever its
\* replacement value.
C1_RemoveIsRemoved ==
    \A i \in 1..Len(InputChanges) :
        InputChanges[i].Action = "Remove" =>
            /\ ActionReturned => InGroup(actionGroups, "Removed resources", i)
            /\ PRReturned => InGroup(prGroups, "Removed resources", i)

\* Both renderers have classified a Remove whose replacement is True.
C1_Witness ==
    /\ BothReturned
    /\ \E i \in 1..Len(InputChanges) :
           /\ InputChanges[i].Action = "Remove"
           /\ InputChanges[i].Replacement = "True"
           /\ InGroup(actionGroups, "Removed resources", i)

\* --- C2 ----------------------------------------------------------------
\* C2: every resource change whose replacement is True or Conditional and
\* whose action is not Remove is in the 'Will be replaced' group of both
\* renderers, also when its action is Add.
C2_ReplacementIsReplaced ==
    \A i \in 1..Len(InputChanges) :
        ( FlaggedForReplacement(InputChanges[i])
          /\ InputChanges[i].Action # "Remove" ) =>
            /\ ActionReturned => InGroup(actionGroups, "Will be replaced", i)
            /\ PRReturned => InGroup(prGroups, "Will be replaced", i)

\* Both renderers have classified an Add whose replacement is Conditional.
C2_Witness ==
    /\ BothReturned
    /\ \E i \in 1..Len(InputChanges) :
           /\ InputChanges[i].Action = "Add"
           /\ InputChanges[i].Replacement = "Conditional"
           /\ InGroup(prGroups, "Will be replaced", i)

\* --- C3 ----------------------------------------------------------------
\* The number of entries of the i-th change in group g.
EntriesOf(groups, g, i) ==
    Cardinality({ n \in 1..Len(groups[g]) : groups[g][n].resource = i })

\* Every change has exactly one entry over the four groups, and the group
\* sizes sum to the number of changes.
ExactPartition(groups) ==
    /\ DOMAIN groups = {"Removed resources", "Will be replaced",
                        "Modified without replacement", "New resources"}
    /\ \A i \in 1..Len(InputChanges) :
           \E g \in DOMAIN groups :
               /\ EntriesOf(groups, g, i) = 1
               /\ \A h \in DOMAIN groups \ {g} : EntriesOf(groups, h, i) = 0
    /\ Len(groups["Removed resources"]) + Len(groups["Will be replaced"])
       + Len(groups["Modified without replacement"]) + Len(groups["New resources"])
       = Len(InputChanges)

\* C3: after classification each resource change is in exactly one of the
\* four groups, and the four group sizes sum to the number of changes.
C3_ExhaustivePartition ==
    /\ ActionReturned => ExactPartition(actionGroups)
    /\ PRReturned => ExactPartition(prGroups)

\* Both renderers have classified a changeset of two changes, one of them
\* an Import.
C3_Witness ==
    /\ BothReturned
    /\ Len(InputChanges) >= 2
    /\ \E i \in 1..Len(InputChanges) : InputChanges[i].Action = "Import"

\* --- C4 ----------------------------------------------------------------
\* The category the four rules give, first match wins.
RuleCategory(resource) ==
    IF resource.Action = "Remove" THEN "Removed resources"
    ELSE IF FlaggedForReplacement(resource) THEN "Will be replaced"
    ELSE IF resource.Action = "Add" THEN "New resources"
    ELSE "Modified without replacement"

\* C4: a change that is neither a Remove nor flagged for replacement is in
\* 'New resources' exactly when its action is Add and in 'Modified without
\* replacement' for every other action; and every change is in the group of
\* the first rule that matches it, in the order Remove, replacement, Add, else.
C4_AddElseModified ==
    \A i \in 1..Len(InputChanges) :
        LET resource == InputChanges[i]
            rest == resource.Action # "Remove" /\ ~FlaggedForReplacement(resource)
            AsRuled(groups) ==
                /\ InGroup(groups, RuleCategory(resource), i)
                /\ rest => ( InGroup(groups, "New resources", i)
                                <=> resource.Action = "Add" )
                /\ rest => ( InGroup(groups, "Modified without replacement", i)
                                <=> resource.Action \in {"Modify", "Import", "Dynamic"} )
        IN  /\ ActionReturned => AsRuled(actionGroups)
            /\ PRReturned => AsRuled(prGroups)

\* Both renderers have classified an Import and an Add that are not
\* flagged for replacement.
C4_Witness ==
    /\ BothReturned
    /\ \E i, j \in 1..Len(InputChanges) :
           /\ InputChanges[i].Action = "Import"
           /\ InputChanges[i].Replacement = "False"
           /\ InGroup(actionGroups, "Modified without replacement", i)
           /\ InputChanges[j].Action = "Add"
           /\ InputChanges[j].Replacement = Undefined
           /\ InGroup(actionGroups, "New resources", j)

\* --- C5 ----------------------------------------------------------------
\* The marker that belongs to a category.
CategoryEmoji(g) ==
    IF g = "Removed resources" THEN "no_entry"
    ELSE IF g = "Will be replaced" THEN "red_circle"
    ELSE IF g = "Modified without replacement" THEN "yellow_circle"
    ELSE "green_circle"

\* The table rows of a report that show the given logical id.
RowsOf(report, id) ==
    SelectSeq(report, LAMBDA l : l.kind = "row" /\ l.LogicalResourceId = id)

\* The count lines of a report, as label and count.
SummaryCounts(report) ==
    LET lines == LinesOfKind(report, "summary")
    IN  [ k \in 1..Len(lines) |-> <<lines[k].label, lines[k].count>> ]

\* C5: the ANSI renderer and the Markdown renderer agree on classification:
\* each resource is in the same group in both, the summary counts are the
\* same in both, and the marker of its table row is the same in both and is
\* the marker of its category, never the default white one.
C5_RenderersAgree ==
    BothReturned =>
        /\ SummaryCounts(actionReport) = SummaryCounts(prReport)
        /\ \A i \in 1..Len(InputChanges) :
               \A g \in DOMAIN actionGroups :
                   /\ InGroup(actionGroups, g, i) <=> InGroup(prGroups, g, i)
                   /\ InGroup(actionGroups, g, i) =>
                        LET id == InputChanges[i].LogicalResourceId
                            a == RowsOf(actionReport, id)
                            m == RowsOf(prReport, id)
                        IN  /\ Len(a) = 1 /\ Len(m) = 1
                            /\ a[1].emoji = m[1].emoji
                            /\ a[1].emoji = CategoryEmoji(g)
                            /\ a[1].emoji # "white_circle"

\* Both renderers have rendered a changeset with a removed resource and a
\* resource of another category.
C5_Witness ==
    /\ BothReturned
    /\ \E i, j \in 1..Len(InputChanges) :
           /\ InGroup(actionGroups, "Removed resources", i)
           /\ InGroup(prGroups, "Will be replaced", j)
           /\ Len(RowsOf(actionReport, InputChanges[i].LogicalResourceId)) = 1
           /\ Len(RowsOf(prReport, InputChanges[j].LogicalResourceId)) = 1

\* --- Detail blocks -------------------------------------------------------
\* The details of a resource change, none when the property is absent.
DetailItems(resource) ==
    IF resource.Details.kind = "array" THEN resource.Details.items ELSE <<>>

\* evaluation is Dynamic, or requiresRecreation is Always or Conditionally.
IsCauseDetail(detail) ==
    \/ detail.Evaluation = "Dynamic"
    \/ detail.Target.RequiresRecreation \in {"Always", "Conditionally"}

\* The positions of the heading lines of the blocks of a logical id in the
\* replacement section.
ReplacedHeadings(report, id) ==
    { h \in 1..Len(report) :
        /\ report[h].kind = "heading"
        /\ report[h].section = "Resources Requiring Replacement"
        /\ report[h].LogicalResourceId = id }

\* The block that starts at heading line h: up to the next heading or
\* section header.
BlockAt(report, h) ==
    LET ends == { e \in (h + 1)..Len(report) :
                    report[e].kind \in {"heading", "sectionHeader"} }
        last == IF ends = {} THEN Len(report)
                ELSE (CHOOSE e \in ends : \A f \in ends : e <= f) - 1
    IN  SubSeq(report, h, last)

\* The sub-list under the 'Replacement Reason' heading of a block: the
\* list items that directly follow the heading line.
ReasonList(block) ==
    LET r == CHOOSE k \in 1..Len(block) : block[k].kind = "reasonHeader"
        items == { k \in (r + 1)..Len(block) :
                     \A m \in (r + 1)..k : block[m].kind \in {"cause", "implicit"} }
    IN  SubSeq(block, r + 1, r + Cardinality(items))

\* Every resource of the 'Will be replaced' group, by position in the
\* changes, with the heading lines of its blocks in the report.
ReplacedBlocks(report, groups) ==
    { <<groups["Will be replaced"][n].resource,
        ReplacedHeadings(report,
            InputChanges[groups["Will be replaced"][n].resource].LogicalResourceId)>> :
        n \in 1..Len(groups["Will be replaced"]) }

\* --- C6 ----------------------------------------------------------------
\* The reason sub-list of every replaced resource is not empty, and holds
\* the fallback line when no detail of the resource is a cause.
ReasonNeverEmpty(report, groups) ==
    \A rb \in ReplacedBlocks(report, groups) :
        /\ Cardinality(rb[2]) = 1
        /\ LET block == BlockAt(report, CHOOSE h \in rb[2] : TRUE)
               causes == SelectSeq(DetailItems(InputChanges[rb[1]]), IsCauseDetail)
           IN  /\ \E k \in 1..Len(block) : block[k].kind = "reasonHeader"
               /\ ReasonList(block) # <<>>
               /\ causes = <<>> =>
                    \E k \in 1..Len(ReasonList(block)) :
                        /\ ReasonList(block)[k].kind = "implicit"
                        /\ ReasonList(block)[k].text =
                             "Implicit replacement due to dependent resource changes"

\* C6: for every resource in the Replaced category whose replacement-cause
\* subsequence is empty (details empty or absent, or no detail Dynamic or
\* Always/Conditionally), the 'Replacement Reason' sub-list holds the
\* fallback line; the sub-list is never empty.
C6_FallbackWhenNoCause ==
    /\ ActionReturned => ReasonNeverEmpty(actionReport, actionGroups)
    /\ PRReturned => ReasonNeverEmpty(prReport, prGroups)

\* --- C7 ----------------------------------------------------------------
\* The 'requires recreation' lines of every replaced resource's block are,
\* in order, the details that are causes.
CausesListed(report, groups) ==
    \A rb \in ReplacedBlocks(report, groups) :
        /\ Cardinality(rb[2]) = 1
        /\ LET block == BlockAt(report, CHOOSE h \in rb[2] : TRUE)
               causes == SelectSeq(DetailItems(InputChanges[rb[1]]), IsCauseDetail)
               lines == LinesOfKind(block, "cause")
           IN  /\ Len(lines) = Len(causes)
               /\ \A j \in 1..Len(lines) :
                      /\ lines[j].Name = causes[j].Target.Name
                      /\ lines[j].RequiresRecreation =
                           causes[j].Target.RequiresRecreation

\* C7: for every resource in the Replaced category, the 'requires
\* recreation' lines of its block correspond one-to-one and in order to the
\* details whose evaluation is Dynamic or whose requiresRecreation is Always
\* or Conditionally; no other detail produces such a line.
C7_CausesInOrder ==
    /\ ActionReturned => CausesListed(actionReport, actionGroups)
    /\ PRReturned => CausesListed(prReport, prGroups)

\* Both renderers have rendered a replaced resource whose first detail is no
\* cause and whose second detail is a cause by its Dynamic evaluation only.
C7_Witness ==
    /\ BothReturned
    /\ \E i \in 1..Len(InputChanges) :
           LET d == DetailItems(InputChanges[i])
           IN  /\ InGroup(actionGroups, "Will be replaced", i)
               /\ Len(d) = 2
               /\ ~IsCauseDetail(d[1])
               /\ d[2].Evaluation = "Dynamic"
               /\ d[2].Target.RequiresRecreation = "Never"
               /\ Len(LinesOfKind(actionReport, "cause")) = 1
               /\ Len(LinesOfKind(prReport, "cause")) = 1

\* --- C8 ----------------------------------------------------------------
\* In every replaced resource's block the property lines are one per
\* detail, and a line has the warning prefix exactly when its detail is a
\* cause.
HighlightIsCause(report, groups) ==
    \A rb \in ReplacedBlocks(report, groups) :
        /\ Cardinality(rb[2]) = 1
        /\ LET block == BlockAt(report, CHOOSE h \in rb[2] : TRUE)
               details == DetailItems(InputChanges[rb[1]])
               lines == LinesOfKind(block, "property")
           IN  /\ Len(lines) = Len(details)
               /\ \A j \in 1..Len(lines) :
                      /\ lines[j].Name = details[j].Target.Name
                      /\ lines[j].prefix <=> IsCauseDetail(details[j])

\* C8: in the 'All Property Changes' sub-list of a Replaced resource a
\* detail carries the warning prefix if and only if it satisfies the
\* predicate of the replacement-cause extraction, so that the highlighted
\* entries are exactly the entries listed as replacement reasons.
C8_HighlightSamePredicate ==
    /\ ActionReturned => HighlightIsCause(actionReport, actionGroups)
    /\ PRReturned => HighlightIsCause(prReport, prGroups)

\* --- C9 ----------------------------------------------------------------
\* A report of no changes: four count lines, all 0, the 'No changes
\* detected.' line, no table and no detail section.
NoChangesReport(report) ==
    /\ Len(LinesOfKind(report, "summary")) = 4
    /\ \A k \in 1..Len(report) :
           /\ report[k].kind = "summary" => report[k].count = 0
           /\ report[k].kind \notin {"tableTitle", "tableHeader", "tableSeparator",
                                     "row", "sectionHeader", "heading"}
    /\ \E k \in 1..Len(report) :
           report[k].kind = "line" /\ report[k].text = "No changes detected."

\* C9: when the list of changes is empty, absent or null, a call of either
\* renderer returns (it does not throw) a report of no changes.
C9_EmptyChanges ==
    ( changeset.Changes.kind # "array" \/ changeset.Changes.items = <<>> ) =>
        /\ actionOutcome # "none" =>
               ActionReturned /\ NoChangesReport(actionReport)
        /\ prOutcome # "none" =>
               PRReturned /\ NoChangesReport(prReport)

\* Both renderers have been called on a changeset whose Changes is null.
C9_Witness ==
    /\ changeset.Changes.kind = "null"
    /\ actionOutcome # "none"
    /\ prOutcome # "none"
    /\ Len(actionReport) > 0
    /\ Len(prReport) > 0

\* --- C10 ---------------------------------------------------------------
\* The data rows of a report are one per change, the k-th row showing
\* index k and the k-th change.
RowsInInputOrder(report) ==
    LET rows == LinesOfKind(report, "row")
    IN  /\ Len(rows) = Len(InputChanges)
        /\ \A k \in 1..Len(rows) :
               /\ rows[k].index = k
               /\ rows[k].LogicalResourceId = InputChanges[k].LogicalResourceId
               /\ rows[k].ResourceType = InputChanges[k].ResourceType
               /\ rows[k].Action = InputChanges[k].Action
               /\ rows[k].Replacement =
                    IF InputChanges[k].Replacement = Undefined THEN "N/A"
                    ELSE InputChanges[k].Replacement

\* C10: when the changeset has at least one change, the overview table has
\* exactly one data row per change, and the k-th data row shows index k and
\* the k-th change of the input, not grouped by category and not re-sorted.
C10_RowPerChangeInOrder ==
    Len(InputChanges) >= 1 =>
        /\ ActionReturned => RowsInInputOrder(actionReport)
        /\ PRReturned => RowsInInputOrder(prReport)

\* Both renderers have rendered a changeset whose first change is a new
\* resource and whose second change is replaced: the detail sections show
\* the second before the first, the table does not.
C10_Witness ==
    /\ BothReturned
    /\ Len(InputChanges) >= 2
    /\ InGroup(actionGroups, "New resources", 1)
    /\ InGroup(actionGroups, "Will be replaced", 2)
    /\ Len(LinesOfKind(actionReport, "row")) = Len(InputChanges)
    /\ Len(LinesOfKind(prReport, "row")) = Len(InputChanges)

\* --- C11 ---------------------------------------------------------------
\* The number of changes the four rules put in category g.
CategorySize(g) ==
    Cardinality({ i \in 1..Len(InputChanges) : RuleCategory(InputChanges[i]) = g })

\* The summary of a report: the header line directly followed by the four
\* count lines, in the order Removed, Replaced, ModifiedInPlace, New, each
\* with the size of its category; no other count line in the report.
SummaryInFixedOrder(report) ==
    /\ Len(LinesOfKind(report, "summary")) = 4
    /\ \E h \in 1..(Len(report) - 4) :
           /\ report[h].kind = "summaryHeader"
           /\ report[h + 1] = [kind |-> "summary", emoji |-> "no_entry",
                               label |-> "Resources to be removed",
                               count |-> CategorySize("Removed resources")]
           /\ report[h + 2] = [kind |-> "summary", emoji |-> "red_circle",
                               label |-> "Resources requiring replacement",
                               count |-> CategorySize("Will be replaced")]
           /\ report[h + 3] = [kind |-> "summary", emoji |-> "yellow_circle",
                               label |-> "Resources modified in-place",
                               count |-> CategorySize("Modified without replacement")]
           /\ report[h + 4] = [kind |-> "summary", emoji |-> "green_circle",
                               label |-> "New resources to be created",
                               count |-> CategorySize("New resources")]

\* C11: the summary block has exactly four count lines, in the fixed order
\* Removed, Replaced, ModifiedInPlace, New, each showing the size of its
\* category; a category with no resource is still printed, with count 0.
C11_FourCountLines ==
    /\ ActionReturned => SummaryInFixedOrder(actionReport)
    /\ PRReturned => SummaryInFixedOrder(prReport)

\* Both renderers have rendered a changeset with two new resources and
\* nothing in the other three categories.
C11_Witness ==
    /\ BothReturned
    /\ CategorySize("New resources") = 2
    /\ CategorySize("Removed resources") = 0
    /\ Len(LinesOfKind(actionReport, "summary")) = 4
    /\ Len(LinesOfKind(prReport, "summary")) = 4

\* --- C12 ---------------------------------------------------------------
\* The changes as they were before generateActionReport coloured them.
Uncolored(cs) ==
    [cs EXCEPT !.Changes.items =
        [ i \in 1..Len(@) |-> [@[i] EXCEPT !.color = Undefined] ]]

\* C12: rendering is idempotent and deterministic: once a renderer has
\* returned a report, every later call of either renderer leaves that
\* report as it is (a second call returns the same report, also when it
\* sees the colours the first generateActionReport call attached), and no
\* call ends otherwise than by returning, whatever the order of the calls.
C12_RenderTwiceSame ==
    [][ /\ ActionReturned =>
             actionOutcome' = "returned" /\ actionReport' = actionReport
        /\ PRReturned =>
             prOutcome' = "returned" /\ prReport' = prReport ]_vars

\* generateActionReport has returned and its input carries the colours of
\* an earlier call: the report is the one of the uncoloured input.
C12_Witness ==
    /\ BothReturned
    /\ Len(InputChanges) = 2
    /\ \A i \in 1..Len(InputChanges) : InputChanges[i].color # Undefined
    /\ actionReport = generateActionReport(Uncolored(changeset)).report
    /\ prReport = generatePRReport(Uncolored(changeset)).report


\* The widths the table of a report was laid out with.
TableWidths(report) == LinesOfKind(report, "tableHeader")[1].colWidths

\* A column is wide enough for every row: its width is at least the visible
\* length of each cell's content plus the padding.
ColumnFits(report, column, cell) ==
    \A k \in 1..Len(LinesOfKind(report, "row")) :
        TableWidths(report)[column]
            >= LinesOfKind(report, "row")[k][cell].content + padding

\* C13: for each sized column of the ANSI overview table (Resource, Type,
\* Action, Replacement) the computed width is at least the visible length of
\* the longest cell of the column plus the padding of 2, the Resource cell
\* being the marker emoji, a space and the logical ID, and the Replacement
\* cell being 'N/A' when the replacement is absent.
C13_WidthCoversLongestCell ==
    (ActionReturned /\ Len(InputChanges) > 0) =>
        /\ ColumnFits(actionReport, "Resource", "resourceCell")
        /\ ColumnFits(actionReport, "Type", "typeCell")
        /\ ColumnFits(actionReport, "Action", "actionCell")
        /\ ColumnFits(actionReport, "Replacement", "replacementCell")

\* The three columns measured by the same text they print are wide enough.
TextColumnsFit ==
    (ActionReturned /\ Len(InputChanges) > 0) =>
        /\ ColumnFits(actionReport, "Type", "typeCell")
        /\ ColumnFits(actionReport, "Action", "actionCell")
        /\ ColumnFits(actionReport, "Replacement", "replacementCell")


\* Some resource change of the changeset lacks Replacement, Details or Action.
SomeOptionalAbsent ==
    \E i \in 1..Len(InputChanges) :
        \/ InputChanges[i].Replacement = Undefined
        \/ InputChanges[i].Details.kind # "array"
        \/ InputChanges[i].Action = Undefined

\* The rows of a report show an absent replacement as 'N/A'.
AbsentReplacementShownNA(report) ==
    \A k \in 1..Len(LinesOfKind(report, "row")) :
        LET row == LinesOfKind(report, "row")[k]
        IN  InputChanges[row.index].Replacement = Undefined
                => row.Replacement = "N/A"

\* C20: rendering never throws on a resource change whose optional fields
\* are missing: with replacement, details or action absent, both
\* generateActionReport and generatePRReport return a report, the absent
\* replacement shown as 'N/A' and the absent details as an empty sequence.
C20_NeverThrowsOnMissing ==
    SomeOptionalAbsent =>
        /\ actionOutcome # "threw"
        /\ prOutcome # "threw"
        /\ ActionReturned => AbsentReplacementShownNA(actionReport)
        /\ PRReturned => AbsentReplacementShownNA(prReport)

\* The Markdown renderer returns on every such changeset, and the ANSI
\* renderer throws only when an Action is absent.
ThrowsOnlyOnAbsentAction ==
    /\ prOutcome # "threw"
    /\ PRReturned => AbsentReplacementShownNA(prReport)
    /\ ActionReturned => AbsentReplacementShownNA(actionReport)
    /\ actionOutcome = "threw" =>
          \E i \in 1..Len(InputChanges) : InputChanges[i].Action = Undefined

\* ------------------------------------------------------------------------
\* Vocabulary of the properties of run()
\* ------------------------------------------------------------------------
Done == pc = "done"

OutputNames == {"report", "changeset-name", "changeset-status"}

AllOutputsSet == DOMAIN outputs = OutputNames

NoOutputSet == DOMAIN outputs = {}

MarkedFailed == Len(failed) > 0

\* The positions of the requests made to an API.
CallsTo(api) == { k \in 1..Len(calls) : calls[k].api = api }

Rejected(api) == \E k \in CallsTo(api) : calls[k].outcome = "rejected"

Fulfilled(api) == \E k \in CallsTo(api) : calls[k].outcome = "fulfilled"

GitHubApis ==
    {"pulls.get", "issues.listComments", "issues.updateComment", "issues.createComment"}

\* The log has a line of this level with this text.
Logged(level, text) ==
    \E k \in 1..Len(log) :
        /\ log[k].level = level
        /\ "text" \in DOMAIN log[k]
        /\ log[k].text = text

WarningLogged == \E k \in 1..Len(log) : log[k].level = "warning"

\* C14: the three outputs report, changeset-name and changeset-status are
\* produced together or not at all: at the end of every run either all three
\* are set and the run is not marked failed, or none is set and the run is
\* marked failed with setFailed.
C14_OutputsTogetherOrFailed ==
    /\ AllOutputsSet \/ NoOutputSet
    /\ Done => \/ AllOutputsSet /\ ~MarkedFailed
               \/ NoOutputSet /\ MarkedFailed

\* A run that described a changeset, failed in the renderer and ended
\* without any output.
C14_Witness ==
    /\ Done
    /\ Fulfilled("describeChangeSet")
    /\ actionOutcome = "threw"
    /\ NoOutputSet
    /\ MarkedFailed

\* The names a listing returned.
ListedNames ==
    { listResult.Summaries.items[i].ChangeSetName :
        i \in 1..Len(listResult.Summaries.items) }

\* C15: in every run that is not marked failed and for which a changeset was
\* found, the changeset-name output is the non-empty name that was passed to
\* describeChangeSet (the explicit input name or the name selected from the
\* listing), the changeset-status output is the Status of the described
\* changeset, and the report output is the report string.
C15_OutputsMatchDescribed ==
    (Done /\ ~MarkedFailed /\ ~noChangesetFound) =>
        /\ AllOutputsSet
        /\ \E k \in CallsTo("describeChangeSet") :
              /\ calls[k].outcome = "fulfilled"
              /\ calls[k].ChangeSetName = outputs["changeset-name"]
        /\ outputs["changeset-name"] \notin {"", Undefined}
        /\ outputs["changeset-name"] \in
              (IF inputs.changesetName # "" THEN {inputs.changesetName}
               ELSE ListedNames)
        /\ outputs["changeset-status"] = changeset.Status
        /\ changeset.Status \in {"CREATE_COMPLETE", "FAILED"}
        /\ ActionReturned
        /\ outputs["report"] = actionReport
        /\ Len(actionReport) > 0

\* A successful run that selected the second listed changeset, whose status
\* is FAILED.
C15_Witness ==
    /\ Done
    /\ ~MarkedFailed
    /\ inputs.changesetName = ""
    /\ AllOutputsSet
    /\ outputs["changeset-name"] = "changeset-b"
    /\ outputs["changeset-status"] = "FAILED"

\* The summary of the listing that has this name is among the latest created.
IsLatestListed(name) ==
    \E i \in 1..Len(listResult.Summaries.items) :
        /\ listResult.Summaries.items[i].ChangeSetName = name
        /\ \A j \in 1..Len(listResult.Summaries.items) :
              listResult.Summaries.items[j].CreationTime
                  <= listResult.Summaries.items[i].CreationTime

\* C16: with a changeset-name input the run describes exactly that changeset
\* and does not list changesets; without it, when the listing returns at
\* least one summary, the run describes the changeset whose creation time is
\* the greatest among the listed summaries.
C16_DescribesNamedOrLatest ==
    /\ inputs.changesetName # "" =>
          /\ CallsTo("listChangeSets") = {}
          /\ \A k \in CallsTo("describeChangeSet") :
                calls[k].ChangeSetName = inputs.changesetName
          /\ (pc # "start" /\ inputs.stackName # "") =>
                Cardinality(CallsTo("describeChangeSet")) = 1
    /\ (inputs.changesetName = "" /\ listResult.called
            /\ hasSummaries(listResult.Summaries)) =>
          /\ Cardinality(CallsTo("describeChangeSet")) = 1
          /\ \A k \in CallsTo("describeChangeSet") :
                IsLatestListed(calls[k].ChangeSetName)

\* The listing returned two changesets, the later one second, and the run
\* described the second.
C16_Witness ==
    /\ inputs.changesetName = ""
    /\ listResult.called
    /\ Len(listResult.Summaries.items) = 2
    /\ listResult.Summaries.items[1].CreationTime
          > listResult.Summaries.items[2].CreationTime
    /\ \E k \in CallsTo("describeChangeSet") : calls[k].ChangeSetName = "changeset-b"

\* The listing resolved without a summary.
EmptyListingReturned ==
    /\ inputs.changesetName = ""
    /\ listResult.called
    /\ ~hasSummaries(listResult.Summaries)

\* C17: without a changeset name and with an empty listing, the run reaches
\* a non-error terminal state: describeChangeSet is never called, setFailed
\* is never called, the report output is the fixed 'No changesets found'
\* message with no summary and no table, the changeset-name output is the
\* sentinel 'NO_CHANGESETS' and the status 'NONE'.
C17_NoChangesetIsNotAnError ==
    EmptyListingReturned =>
        /\ CallsTo("describeChangeSet") = {}
        /\ ~MarkedFailed
        /\ AllOutputsSet
        /\ outputs["report"] = noChangesetReport(inputs.stackName)
        /\ \A k \in 1..Len(outputs["report"]) :
              outputs["report"][k].kind \in {"title", "noChangesets", "line"}
        /\ outputs["changeset-name"] = "NO_CHANGESETS"
        /\ outputs["changeset-status"] = "NONE"

\* A finished run whose listing was an empty array.
C17_Witness ==
    /\ Done
    /\ EmptyListingReturned
    /\ listResult.Summaries.kind = "array"
    /\ AllOutputsSet

\* An AWS call of the run was rejected.
AwsCallRejected == Rejected("listChangeSets") \/ Rejected("describeChangeSet")

\* C18, as stated: when an AWS call of the run (listChangeSets or
\* describeChangeSet) fails, the failure is caught, reported as a
\* warning-level message, and does not prevent the report output from being
\* produced.
C18_AwsFailureIsWarning ==
    (Done /\ AwsCallRejected) =>
        /\ WarningLogged
        /\ "report" \in DOMAIN outputs

\* C18, amended: when an AWS call of the run (listChangeSets or
\* describeChangeSet) fails, the failure is caught by the outer handler of
\* run() and reported with setFailed('Action failed: <message>'), not as a
\* warning; the run ends there, no output is set and no GitHub request is
\* made.
C18_AwsFailureFailsRun ==
    AwsCallRejected =>
        /\ Done
        /\ failed = << [text |-> "Action failed", message |-> AwsError.message] >>
        /\ ~WarningLogged
        /\ NoOutputSet
        /\ \A api \in GitHubApis : CallsTo(api) = {}

\* describeChangeSet was rejected after a listing had selected a changeset.
C18_Witness ==
    /\ listResult.called
    /\ Rejected("describeChangeSet")
    /\ MarkedFailed

\* The comment phase was entered and failed: no token, or a GitHub request
\* rejected.
CommentPhaseFailed ==
    \/ \E api \in GitHubApis : Rejected(api)
    \/ /\ AllOutputsSet
       /\ isPullRequest(inputs)
       /\ commentOnPR(inputs)
       /\ inputs.githubToken = ""

\* The comment was written.
CommentPosted == Fulfilled("issues.updateComment") \/ Fulfilled("issues.createComment")

\* C19: a failure in the pull-request comment phase (missing token,
\* permission check, listing comments, updating or creating a comment) is
\* turned into warnings only: setFailed is not called, the three outputs set
\* before the comment phase stay set with the values of the report phase,
\* and the log tells the run from a fully successful one.
C19_CommentFailureOnlyWarns ==
    /\ CommentPhaseFailed =>
          /\ Done
          /\ ~MarkedFailed
          /\ AllOutputsSet
          /\ outputs = setOutputs(<<>>, actionReport,
                                  changesetNameOutput(noChangesetFound, actualChangesetName),
                                  changeset.Status)
          /\ Logged("warning", "Failed to comment on PR")
          /\ ~Logged("info", "Successfully posted CloudFormation changeset report as PR comment")
    /\ CommentPosted =>
          /\ Logged("info", "Successfully posted CloudFormation changeset report as PR comment")
          /\ ~Logged("warning", "Failed to comment on PR")

\* The report was output and the update of the existing comment was rejected.
C19_Witness ==
    /\ Done
    /\ AllOutputsSet
    /\ Rejected("issues.updateComment")
    /\ Logged("warning", "Failed to comment on PR")

\* ------------------------------------------------------------------------
\* Detail sections and stable classification
\* ------------------------------------------------------------------------
\* The detail sections in their display order, with the group of each.
SectionOrder ==
    << [title |-> "Resources Requiring Replacement", group |-> "Will be replaced"],
       [title |-> "Resources Modified In-Place", group |-> "Modified without replacement"],
       [title |-> "New Resources", group |-> "New resources"],
       [title |-> "Resources Being Removed", group |-> "Removed resources"] >>

\* The positions, in input order, of the changes the rules put in a group.
CategoryMembers(g) ==
    SelectSeq([ i \in 1..Len(InputChanges) |-> i ],
              LAMBDA i : RuleCategory(InputChanges[i]) = g)

\* The section headers and block headings a report has, in report order.
Outline(report) ==
    LET lines == SelectSeq(report, LAMBDA l : l.kind \in {"sectionHeader", "heading"})
    IN  [ k \in 1..Len(lines) |->
            IF lines[k].kind = "sectionHeader"
            THEN <<"section", lines[k].title, lines[k].count, "">>
            ELSE <<"block", lines[k].section, lines[k].localIndex,
                   lines[k].LogicalResourceId>> ]

\* The outline the rules prescribe: for each non-empty category, in the
\* display order, its header and one block per member, numbered from 1.
ExpectedOutline ==
    Flatten([ s \in 1..Len(SectionOrder) |->
        LET members == CategoryMembers(SectionOrder[s].group)
        IN  IF Len(members) = 0 THEN <<>>
            ELSE << <<"section", SectionOrder[s].title, Len(members), "">> >>
                 \o [ n \in 1..Len(members) |->
                        <<"block", SectionOrder[s].title, n,
                          InputChanges[members[n]].LogicalResourceId>> ] ])

\* C24: the detail sections are emitted only for non-empty categories and
\* in the fixed order Replaced, ModifiedInPlace, New, Removed; each section
\* has one block per resource of its category, numbered with a local 1-based
\* index within the category, not with the resource's index in the table.
C24_SectionsInFixedOrder ==
    /\ ActionReturned => Outline(actionReport) = ExpectedOutline
    /\ PRReturned => Outline(prReport) = ExpectedOutline

\* Two changes, the first removed and the second replaced: the sections come
\* in the reverse of the input order and the second change is block 1.
C24_Witness ==
    /\ BothReturned
    /\ Len(InputChanges) = 2
    /\ RuleCategory(InputChanges[1]) = "Removed resources"
    /\ RuleCategory(InputChanges[2]) = "Will be replaced"
    /\ Len(Outline(actionReport)) = 4
    /\ Len(Outline(prReport)) = 4

\* The entries of every group follow the input order: the changes of a group
\* are the changes the rules put there, in input order, and the recorded
\* index grows strictly along the list.
StablePartition(groups) ==
    \A g \in DOMAIN groups :
        /\ [ n \in 1..Len(groups[g]) |-> groups[g][n].resource ] = CategoryMembers(g)
        /\ \A n, m \in 1..Len(groups[g]) :
              n < m => groups[g][n].index < groups[g][m].index
        /\ \A n \in 1..Len(groups[g]) : groups[g][n].index = groups[g][n].resource

\* C25: classification is a stable partition: within each category the
\* resources appear in the same relative order as in the input changes, and
\* the original index recorded with each entry is strictly increasing along
\* the category's list.
C25_StablePartition ==
    /\ ActionReturned => StablePartition(actionGroups)
    /\ PRReturned => StablePartition(prGroups)

\* Two changes of the same category, classified by both renderers.
C25_Witness ==
    /\ BothReturned
    /\ Len(InputChanges) = 2
    /\ RuleCategory(InputChanges[1]) = RuleCategory(InputChanges[2])
    /\ InputChanges[1].Action # InputChanges[2].Action
    /\ Len(actionGroups[RuleCategory(InputChanges[1])]) = 2
    /\ Len(prGroups[RuleCategory(InputChanges[1])]) = 2

\* ------------------------------------------------------------------------
\* Layout of the ANSI overview table
\* ------------------------------------------------------------------------
\* A coloured cell of a row embeds as many escape characters as the padding
\* allows for, and without them it is as long as its column is wide.
ColouredCellFills(report, column, cell) ==
    \A k \in 1..Len(LinesOfKind(report, "row")) :
        LET c == LinesOfKind(report, "row")[k][cell]
        IN  /\ c.escapes = ANSI_COLOR_LENGTH
            /\ c.length - c.escapes = TableWidths(report)[column]

\* C26: in the ANSI table the colour escape sequences do not count toward
\* the cell width: for every data row and each coloured column (Resource,
\* Action, Replacement) the cell without its escape sequences has exactly
\* the column's computed width, the colour-overhead constant 9 being the
\* number of escape characters embedded for each of the four colours.
C26_EscapesExcludedFromWidth ==
    (ActionReturned /\ Len(InputChanges) > 0) =>
        /\ ColouredCellFills(actionReport, "Resource", "resourceCell")
        /\ ColouredCellFills(actionReport, "Action", "actionCell")
        /\ ColouredCellFills(actionReport, "Replacement", "replacementCell")

\* A table with a red row and a row of another colour.
C26_Witness ==
    /\ ActionReturned
    /\ Len(LinesOfKind(actionReport, "row")) = 2
    /\ LinesOfKind(actionReport, "row")[1].emoji = "red_circle"
    /\ LinesOfKind(actionReport, "row")[2].emoji = "no_entry"

\* The header, separator and data lines of the table of a report.
TableLines(report) ==
    SelectSeq(report, LAMBDA l : l.kind \in {"tableHeader", "tableSeparator", "row"})

\* All the table lines have the same length once the escapes are removed.
Aligned(report) ==
    \A k, m \in 1..Len(TableLines(report)) :
        TableLines(report)[k].length - TableLines(report)[k].escapes
            = TableLines(report)[m].length - TableLines(report)[m].escapes

\* C30: all lines of the ANSI overview table are aligned: for every
\* changeset, with any number of changes, the header row, the separator row
\* and every data row have the same visible length once the escape sequences
\* are removed, including the data rows whose 1-based index has two or more
\* digits.
C30_TableAligned ==
    (ActionReturned /\ Len(InputChanges) > 0) => Aligned(actionReport)

\* The tables of at most nine rows are aligned.
AlignedUpToNineRows ==
    (ActionReturned /\ Len(InputChanges) \in 1..9) => Aligned(actionReport)

\* ------------------------------------------------------------------------
\* The delete-changeset input
\* ------------------------------------------------------------------------
\* C23: the delete-changeset input controls the deletion of the changeset
\* after reporting: with 'true', its default, the run deletes the reported
\* changeset after the report has been produced; with 'false' the run never
\* deletes it.
C23_DeleteChangesetControls ==
    /\ inputs.deleteChangeset = "false" => CallsTo("deleteChangeSet") = {}
    /\ (Done /\ inputs.deleteChangeset = "true" /\ AllOutputsSet /\ ~noChangesetFound) =>
          \E k \in CallsTo("deleteChangeSet") :
              calls[k].ChangeSetName = actualChangesetName

\* No run ever asks for the deletion of a changeset.
NeverDeletes == CallsTo("deleteChangeSet") = {}

\* ------------------------------------------------------------------------
\* Several runs on one pull request: vocabulary
\* ------------------------------------------------------------------------
\* The createComment requests made so far, and the fulfilled ones.
CreateCalls == { k \in 1..Len(calls) : calls[k].api = "issues.createComment" }

FulfilledCreates == { k \in CreateCalls : calls[k].outcome = "fulfilled" }

\* The fulfilled requests that wrote a comment.
FulfilledWrites ==
    { k \in 1..Len(calls) :
        /\ calls[k].api \in {"issues.updateComment", "issues.createComment"}
        /\ calls[k].outcome = "fulfilled" }

\* Every run so far was for one and the same stack.
SameStackRuns ==
    \E stackName \in StackNames : \A k \in 1..Len(calls) : calls[k].stackName = stackName

\* The comments that carry the marker of the stack.
MarkedComments(stackName) ==
    { k \in 1..Len(comments) :
        \E j \in 1..Len(comments[k].body) :
            comments[k].body[j] = [token |-> "commentMarker", stackName |-> stackName] }

\* The body is a CloudFormation changeset comment: it carries the generic
\* marker or a report with its title.
IsCfnBody(body) ==
    \E j \in 1..Len(body) : body[j].token \in {"genericMarker", "markdownReport"}

CfnComments == { k \in 1..Len(comments) : IsCfnBody(comments[k].body) }

\* The pull request had no CloudFormation changeset comment before the
\* first run: the comments that were not created by a run are not such
\* comments (a run only ever writes to such a comment).
StartedWithoutCfnComment ==
    \A k \in 1..(Len(comments) - Cardinality(FulfilledCreates)) : k \notin CfnComments

\* The run has chosen its write request and is waiting for it, one run at
\* a time: the comments are still those it listed.
AwaitsWrite(r) ==
    /\ Len(runs) = 1
    /\ runs[r].pc \in { "issues.updateComment", "issues.updateComment (append)",
                        "issues.createComment" }

\* A run that found a comment with the marker of its stack updates such a
\* comment and does not create one.
UpdatesMarkedComment ==
    \A r \in DOMAIN runs :
        (AwaitsWrite(r) /\ MarkedComments(runs[r].stackName) # {}) =>
            /\ calls[runs[r].call].api = "issues.updateComment"
            /\ \E k \in MarkedComments(runs[r].stackName) :
                   calls[runs[r].call].comment_id = comments[k].id

ReportsFor(stackName) ==
    { generatePRReport(cs).report : cs \in PostedChangesets(stackName) }

\* The last fulfilled write of a run for the stack, 0 when there is none,
\* and the report it posted: the last part of the body it sent.
LatestWrite(stackName) ==
    LET writes == { k \in FulfilledWrites : calls[k].stackName = stackName }
    IN  IF writes = {} THEN 0 ELSE CHOOSE k \in writes : \A j \in writes : j <= k

LatestReport(stackName) ==
    LET body == calls[LatestWrite(stackName)].body
    IN  body[Len(body)].report

\* The comment holds the report, as one of its parts.
Holds(comment, report) ==
    \E j \in 1..Len(comment.body) :
        comment.body[j] = [token |-> "markdownReport", report |-> report]

\* C27: after any sequence of sequential runs for several stacks that share
\* one comment, the comment contains the latest report of every stack that
\* has been reported: an update for one stack leaves the report sections of
\* the other stacks in place.
C27_LatestReportOfEveryStack ==
    Len(runs) = 1 =>
        \A stackName \in StackNames :
            LatestWrite(stackName) # 0 =>
                \E k \in 1..Len(comments) : Holds(comments[k], LatestReport(stackName))

\* An update for a stack whose comment holds no report of another stack
\* leaves the latest report of every reported stack in the comment: what is
\* lost is lost by an update of a comment shared with another stack.
LatestReportUnlessSharedUpdate ==
    (Len(runs) = 1 /\ \A k \in FulfilledWrites :
                         calls[k].api = "issues.updateComment" =>
                             Len(calls[k].body) > 2) =>
        \A stackName \in StackNames :
            LatestWrite(stackName) # 0 =>
                \E k \in 1..Len(comments) : Holds(comments[k], LatestReport(stackName))

\* The positions of the report sections of the stack in the body.
SectionsOf(body, stackName) ==
    { j \in 1..Len(body) :
        /\ body[j].token = "markdownReport"
        /\ body[j].report \in ReportsFor(stackName) }

\* C28: posting is idempotent per stack: after any sequence of sequential
\* runs, the comment holds at most one report section for each stack and
\* that section is tagged with the stack's marker, so that running again for
\* the same stack does not append a second copy (including when the first
\* append went to a comment that lacked the generic marker).
C28_OneTaggedSectionPerStack ==
    Len(runs) = 1 =>
        \A k \in 1..Len(comments) : \A stackName \in StackNames :
            /\ Cardinality(SectionsOf(comments[k].body, stackName)) <= 1
            /\ \A j \in SectionsOf(comments[k].body, stackName) :
                   /\ j > 1
                   /\ comments[k].body[j - 1] =
                          [token |-> "commentMarker", stackName |-> stackName]

\* As long as no run appended to a comment that lacked the generic marker,
\* every comment holds at most one section per stack, tagged with its
\* marker.
OneTaggedSectionUnlessUntaggedAppend ==
    (Len(runs) = 1 /\ \A k \in FulfilledWrites :
                         calls[k].api = "issues.updateComment" =>
                             calls[k].body[Len(calls[k].body) - 1].token = "commentMarker") =>
        \A k \in 1..Len(comments) : \A stackName \in StackNames :
            /\ Cardinality(SectionsOf(comments[k].body, stackName)) <= 1
            /\ \A j \in SectionsOf(comments[k].body, stackName) :
                   /\ j > 1
                   /\ comments[k].body[j - 1] =
                          [token |-> "commentMarker", stackName |-> stackName]

\* Two runs for different stacks were at the comment phase, both wrote,
\* and both have ended.
TwoRunsWrote ==
    /\ Len(runs) = 2
    /\ \A r \in DOMAIN runs : runs[r].pc = "done"
    /\ runs[1].stackName # runs[2].stackName
    /\ \A r \in DOMAIN runs :
          /\ calls[runs[r].call].outcome = "fulfilled"
          /\ calls[runs[r].call].api \in {"issues.updateComment", "issues.createComment"}

\* C29: when two runs for different stacks interleave their listComments
\* and write requests on the same pull request, the final comment state is
\* that of some sequential order of the two runs: one consolidated comment
\* containing both stacks' reports.
C29_InterleavingIsSequential ==
    TwoRunsWrote =>
        /\ Cardinality(CfnComments) = 1
        /\ \A k \in CfnComments : \A r \in DOMAIN runs :
               Holds(comments[k], runs[r].markdownReport)

====
